---- MODULE Spec2Model ----
(***************************************************************************)
(* A model of the insightboard backend (src/backend/src): the token        *)
(* service and the UserCtx request gate (auth.rs), the Redis cache wrapper *)
(* (cache.rs), the five widget handlers (widgets/*.rs) and the error       *)
(* rendering (error.rs).  Time is in seconds, as in the token claims and   *)
(* the cache TTLs.                                                         *)
(***************************************************************************)
EXTENDS Integers, Sequences, FiniteSets, TLC

\* The state of the server and of the stores it talks to.
VARIABLES
    config,     \* AppState.config, fixed at startup
    now,        \* the clock, Unix seconds
    users,      \* the users table: set of [id, email, password_hash]
    dashboards, \* the dashboards table: set of rows
    issued,     \* tokens returned by login so far (held by clients)
    cache,      \* the Redis store: key -> [text, expires, by]
    req         \* req[i]: the task serving request i

vars == <<config, now, users, dashboards, issued, cache, req>>

\* ------------------------------------------------------------------------
\* Bounds of the model
\* ------------------------------------------------------------------------

\* Requests the server receives in one run; request i arrives after i-1.
NumRequests == 2

\* Seconds the clock may advance in unit steps after start.
MaxDrift == 1

\* ------------------------------------------------------------------------
\* Program constants
\* ------------------------------------------------------------------------

\* chrono::Duration::days(7), in seconds (auth.rs:63)
TokenLifetime == 604800

\* jsonwebtoken's Validation::default() sets leeway = 60 seconds (auth.rs:88)
Leeway == 60

\* Cache TTLs in seconds (github.rs:61, weather.rs:65, news.rs:75,
\* crypto.rs:75, status.rs:71)
GithubTtl == 300

WeatherTtl == 600

NewsTtl == 900

CryptoTtl == 300

StatusTtl == 120

\* The clock when the process starts (any Unix time past one token lifetime).
StartTime == 1000000

\* ------------------------------------------------------------------------
\* Results and errors (error.rs)
\* ------------------------------------------------------------------------

Ok(v) == [ok |-> TRUE, val |-> v]

Err(e) == [ok |-> FALSE, err |-> e]

\* AppError variants; `detail` is the String the variant carries.
AppErrorOf(kind, detail) == [kind |-> kind, detail |-> detail]

\* into_response sending the detail of an Internal error to the caller.
IntoResponseLeakDetail(e) ==
    CASE e.kind = "Database"     -> [status |-> 500, body |-> [error |-> "Database error occurred"]]
      [] e.kind = "Redis"        -> [status |-> 500, body |-> [error |-> "Cache error occurred"]]
      [] e.kind = "Auth"         -> [status |-> 401, body |-> [error |-> e.detail]]
      [] e.kind = "Validation"   -> [status |-> 400, body |-> [error |-> e.detail]]
      [] e.kind = "NotFound"     -> [status |-> 404, body |-> [error |-> e.detail]]
      [] e.kind = "Unauthorized" -> [status |-> 401, body |-> [error |-> "Unauthorized"]]
      [] e.kind = "Forbidden"    -> [status |-> 403, body |-> [error |-> "Forbidden"]]
      [] e.kind = "ExternalApi"  -> [status |-> 502, body |-> [error |-> "External service error"]]
      [] e.kind = "Internal"     -> [status |-> 500, body |-> [error |-> e.detail]]

\* impl IntoResponse for AppError: (status, {"error": message})
IntoResponse(e) ==
    CASE e.kind = "Database"     -> [status |-> 500, body |-> [error |-> "Database error occurred"]]
      [] e.kind = "Redis"        -> [status |-> 500, body |-> [error |-> "Cache error occurred"]]
      [] e.kind = "Auth"         -> [status |-> 401, body |-> [error |-> e.detail]]
      [] e.kind = "Validation"   -> [status |-> 400, body |-> [error |-> e.detail]]
      [] e.kind = "NotFound"     -> [status |-> 404, body |-> [error |-> e.detail]]
      [] e.kind = "Unauthorized" -> [status |-> 401, body |-> [error |-> "Unauthorized"]]
      [] e.kind = "Forbidden"    -> [status |-> 403, body |-> [error |-> "Forbidden"]]
      [] e.kind = "ExternalApi"  -> [status |-> 502, body |-> [error |-> "External service error"]]
      [] e.kind = "Internal"     -> [status |-> 500, body |-> [error |-> "Internal server error"]]

\* ------------------------------------------------------------------------
\* Identities, secrets, configuration (config.rs)
\* ------------------------------------------------------------------------

\* Uuid values of users, and their canonical text (Uuid::to_string).
Uuids == {1, 2, 3, 4}

\* The users that exist when the run starts; the third id is the one the
\* next INSERT INTO users returns.
SeedUuids == {1, 2}

UuidToString(u) ==
    CASE u = 1 -> "00000000-0000-0000-0000-000000000001"
      [] u = 2 -> "00000000-0000-0000-0000-000000000002"
      [] u = 3 -> "00000000-0000-0000-0000-000000000003"
      [] OTHER -> "00000000-0000-0000-0000-000000000004"

\* Uuid::parse_str: the canonical text parses back; other text is an error.
ParseUuid(s) ==
    IF \E u \in Uuids : UuidToString(u) = s
    THEN Ok(CHOOSE u \in Uuids : UuidToString(u) = s)
    ELSE Err("invalid uuid")

EmailOf(u) == IF u = 1 THEN "a@b.com" ELSE IF u = 2 THEN "c@d.com" ELSE "new@b.com"

Secrets == {"secret-A", "secret-B"}

\* Config::from_env: the JWT secret is required, the provider keys optional.
Configs ==
    { [jwt_secret |-> "secret-A", openweather_api_key |-> TRUE,  newsapi_api_key |-> TRUE],
      [jwt_secret |-> "secret-B", openweather_api_key |-> FALSE, newsapi_api_key |-> FALSE] }

\* ------------------------------------------------------------------------
\* Token service (auth.rs)
\* ------------------------------------------------------------------------

\* HMAC over header and claims under a secret: equal exactly when both agree.
Sign(secret, alg, claims) == <<secret, alg, claims>>

\* encode(header, claims, key) for an arbitrary header algorithm and claims.
Encode(alg, claims, secret) ==
    [jwt |-> TRUE, alg |-> alg, claims |-> claims, sig |-> Sign(secret, alg, claims)]

\* generate_token with the email as the subject.
GenerateTokenSubEmail(user_id, email, secret, t) ==
    Encode("HS256",
           [sub |-> email, email |-> email, exp |-> t + TokenLifetime, iat |-> t],
           secret)

\* generate_token(user_id, email, secret) at clock t
GenerateToken(user_id, email, secret, t) ==
    Encode("HS256",
           [sub |-> UuidToString(user_id), email |-> email,
            exp |-> t + TokenLifetime, iat |-> t],
           secret)

\* A string that is not three base64 parts.
GarbageToken == [jwt |-> FALSE]

\* validate_token without the signature check.
ValidateTokenNoSignature(token, secret, t) ==
    IF ~token.jwt
      THEN Err(AppErrorOf("Auth", "Invalid token: InvalidToken"))
    ELSE IF token.alg # "HS256"
      THEN Err(AppErrorOf("Auth", "Invalid token: InvalidAlgorithm"))
    ELSE IF token.claims.exp < t - Leeway
      THEN Err(AppErrorOf("Auth", "Invalid token: ExpiredSignature"))
    ELSE Ok(token.claims)

\* decode::<Claims>(token, key, &Validation::default()) at clock t, then
\* map_err to AppError::Auth("Invalid token: {e}")
ValidateToken(token, secret, t) ==
    IF ~token.jwt
      THEN Err(AppErrorOf("Auth", "Invalid token: InvalidToken"))
    ELSE IF token.alg # "HS256"
      THEN Err(AppErrorOf("Auth", "Invalid token: InvalidAlgorithm"))
    ELSE IF token.sig # Sign(secret, token.alg, token.claims)
      THEN Err(AppErrorOf("Auth", "Invalid token: InvalidSignature"))
    ELSE IF token.claims.exp < t - Leeway
      THEN Err(AppErrorOf("Auth", "Invalid token: ExpiredSignature"))
    ELSE Ok(token.claims)

\* ------------------------------------------------------------------------
\* The UserCtx gate (auth.rs, FromRequestParts)
\* ------------------------------------------------------------------------

NoHeader == [kind |-> "none"]

\* An Authorization header that is not "Bearer <token>".
OtherSchemeHeader == [kind |-> "basic"]

BearerHeader(token) == [kind |-> "bearer", token |-> token]

\* TypedHeader<Authorization<Bearer>> extraction
ExtractBearer(hdr) ==
    IF hdr.kind = "bearer" THEN Ok(hdr.token) ELSE Err(AppErrorOf("Unauthorized", ""))

\* from_request_parts with a sub that does not parse taken as the nil UUID.
FromRequestPartsNilUuid(hdr, secret, t) ==
    LET bearer == ExtractBearer(hdr) IN
    IF ~bearer.ok THEN Err(bearer.err)
    ELSE LET claims == ValidateToken(bearer.val, secret, t) IN
         IF ~claims.ok THEN Err(claims.err)
         ELSE LET user_id == ParseUuid(claims.val.sub) IN
              Ok([user_id |-> IF user_id.ok THEN user_id.val ELSE 0,
                  email |-> claims.val.email])

\* from_request_parts that also looks the user up in the users table.
FromRequestPartsKnownUser(hdr, secret, t) ==
    LET bearer == ExtractBearer(hdr) IN
    IF ~bearer.ok THEN Err(bearer.err)
    ELSE LET claims == ValidateToken(bearer.val, secret, t) IN
         IF ~claims.ok THEN Err(claims.err)
         ELSE LET user_id == ParseUuid(claims.val.sub) IN
              IF ~user_id.ok
                THEN Err(AppErrorOf("Auth", "Invalid user ID in token"))
              ELSE IF \A u \in users : u.id # user_id.val
                THEN Err(AppErrorOf("Auth", "Unknown user"))
                ELSE Ok([user_id |-> user_id.val, email |-> claims.val.email])

\* UserCtx::from_request_parts
FromRequestParts(hdr, secret, t) ==
    LET bearer == ExtractBearer(hdr) IN
    IF ~bearer.ok THEN Err(bearer.err)
    ELSE LET claims == ValidateToken(bearer.val, secret, t) IN
         IF ~claims.ok THEN Err(claims.err)
         ELSE LET user_id == ParseUuid(claims.val.sub) IN
              IF ~user_id.ok
                THEN Err(AppErrorOf("Auth", "Invalid user ID in token"))
                ELSE Ok([user_id |-> user_id.val, email |-> claims.val.email])

\* ------------------------------------------------------------------------
\* Credential vault (auth.rs)
\* ------------------------------------------------------------------------

\* hash_password with a salt drawn by SaltString::generate: a PHC string
\* that embeds the salt and the digest of (salt, password).
HashPassword(password, salt) == <<"$argon2id$", salt, <<salt, password>>>>

\* A stored string that PasswordHash::new cannot parse.
MalformedHash == <<"plain">>

\* verify_password propagating argon2's mismatch error with `?`.
VerifyPasswordMismatchIsError(password, password_hash) ==
    IF Len(password_hash) # 3 \/ password_hash[1] # "$argon2id$"
      THEN Err(AppErrorOf("Internal", "Failed to parse password hash"))
    ELSE IF password_hash[3] # <<password_hash[2], password>>
      THEN Err(AppErrorOf("Internal", "invalid password"))
      ELSE Ok(TRUE)

\* verify_password(password, password_hash)
VerifyPassword(password, password_hash) ==
    IF Len(password_hash) # 3 \/ password_hash[1] # "$argon2id$"
      THEN Err(AppErrorOf("Internal", "Failed to parse password hash"))
      ELSE Ok(password_hash[3] = <<password_hash[2], password>>)

\* ------------------------------------------------------------------------
\* Widget queries and the cache store (cache.rs, widgets/*.rs)
\* ------------------------------------------------------------------------

Providers == {"github", "weather", "news", "crypto", "status"}

\* The query parameter of a widget request, as its comma-separated items:
\* username, city, topic, symbols, urls.
ParamsOf(provider) ==
    CASE provider = "github"  -> {<<"octocat">>}
      [] provider = "weather" -> {<<"Paris">>}
      [] provider = "news"    -> {<<"technology">>}
      [] provider = "crypto"  -> {<<"BTC", "ETH">>, <<"btc">>}
      [] provider = "status"  -> {<<"http://a", "http://b">>, <<"">>}

Queries == UNION { { [provider |-> p, param |-> q] : q \in ParamsOf(p) } : p \in Providers }

\* format!("<provider>:{}", param)
CacheKey(provider, param) == <<provider, param>>

Keys == { CacheKey(q.provider, q.param) : q \in Queries }

\* Every handler passing the same TTL.
TtlOfUniform(provider) == GithubTtl

\* The TTL each handler passes to Cache::set.
TtlOf(provider) ==
    CASE provider = "github"  -> GithubTtl
      [] provider = "weather" -> WeatherTtl
      [] provider = "news"    -> NewsTtl
      [] provider = "crypto"  -> CryptoTtl
      [] provider = "status"  -> StatusTtl

\* The type each handler reads from and writes to the cache.
TypeOf(provider) ==
    CASE provider = "github"  -> "Vec<GitHubEvent>"
      [] provider = "weather" -> "WeatherData"
      [] provider = "news"    -> "Vec<NewsArticle>"
      [] provider = "crypto"  -> "Vec<CryptoPrice>"
      [] provider = "status"  -> "Vec<StatusCheck>"

\* A typed value: a struct or a Vec of structs.
Value(type, data) == [type |-> type, data |-> data]

NoValue == Value("none", <<>>)

\* serde_json::to_string(value): the JSON text of the value.
ToJson(value) == [fmt |-> "json", type |-> value.type, data |-> value.data]

\* Text that is no JSON of any widget type.
GarbageText == [fmt |-> "raw", type |-> "none", data |-> <<>>]

\* serde_json::from_str::<T>(text)
FromJson(type, text) ==
    IF text.fmt = "json" /\ text.type = type
      THEN Ok(Value(text.type, text.data))
      ELSE Err("deserialize")

\* A key that holds nothing.
NoEntry == [text |-> GarbageText, expires |-> 0, by |-> 0]

\* Foreign text has no expiry.
NeverExpires == -1

\* A store that keeps an entry whatever its expiry time.
LiveForever(entry, t) == entry # NoEntry

\* The store drops an entry when its expiry time is reached.
Live(entry, t) == entry # NoEntry /\ (entry.expires = NeverExpires \/ t < entry.expires)

\* Cache::get deserializing into another type than the one Cache::set wrote.
CacheGetWrongType(store, type, key, connected) ==
    IF ~connected THEN Err("redis")
    ELSE IF store[key] = NoEntry THEN Ok([some |-> FALSE, v |-> NoValue])
    ELSE LET d == FromJson("String", store[key].text) IN
         IF d.ok THEN Ok([some |-> TRUE, v |-> d.val]) ELSE Err(d.err)

\* Cache::get::<T>(key): Ok(Some(v)), Ok(None) or an error (no connection,
\* or text that does not deserialize into T).
CacheGet(store, type, key, connected) ==
    IF ~connected THEN Err("redis")
    ELSE IF store[key] = NoEntry THEN Ok([some |-> FALSE, v |-> NoValue])
    ELSE LET d == FromJson(type, store[key].text) IN
         IF d.ok THEN Ok([some |-> TRUE, v |-> d.val]) ELSE Err(d.err)

\* Cache::set as SET .. KEEPTTL: the text is replaced in place.
CacheSetKeepTtl(store, key, value, ttl, connected, t, r) ==
    IF connected
      THEN Ok([store EXCEPT ![key] =
                 [text |-> ToJson(value),
                  expires |-> IF store[key] = NoEntry THEN t + ttl ELSE store[key].expires,
                  by |-> r]])
      ELSE Err("redis")

\* Cache::set as SET .. NX: a key that holds an entry keeps it.
CacheSetIfAbsent(store, key, value, ttl, connected, t, r) ==
    IF connected
      THEN Ok([store EXCEPT ![key] =
                 IF store[key] = NoEntry
                   THEN [text |-> ToJson(value), expires |-> t + ttl, by |-> r]
                   ELSE store[key]])
      ELSE Err("redis")

\* Cache::set(key, value, ttl) by request r at clock t: SETEX replaces the
\* whole entry; without a connection the store is unchanged.
CacheSet(store, key, value, ttl, connected, t, r) ==
    IF connected
      THEN Ok([store EXCEPT ![key] = [text |-> ToJson(value), expires |-> t + ttl, by |-> r]])
      ELSE Err("redis")

\* ------------------------------------------------------------------------
\* Requests and rows
\* ------------------------------------------------------------------------

Reqs == 1 .. NumRequests

\* A row of the dashboards table (models/dashboard.rs).
Dashboard(id, user_id, name, layout_json, settings_json, updated_at) ==
    [id |-> id, user_id |-> user_id, name |-> name, layout_json |-> layout_json,
     settings_json |-> settings_json, updated_at |-> updated_at]

NoRow == Dashboard(0, 0, "", "null", "null", 0)

\* The body of an upstream response: JSON or not, with or without the
\* fields the handler looks for, in one of two versions.
Body(json, complete, ver) == [json |-> json, complete |-> complete, ver |-> ver]

NoBody == Body(FALSE, FALSE, 0)

NoCtx == [user_id |-> 0, email |-> ""]

NoResp == [status |-> 0, body |-> <<>>]

IdleReq ==
    [pc |-> "idle", route |-> "none", hdr |-> NoHeader, arg |-> <<>>,
     ctx |-> NoCtx, gate |-> "none", gate_at |-> 0, resp |-> NoResp,
     got |-> "none", read |-> NoEntry, result |-> NoValue, idx |-> 0,
     gets |-> 0, calls |-> 0, failed |-> 0, sets |-> 0, stored |-> 0,
     queries |-> 0, row |-> NoRow, after |-> {}, done_at |-> 0, last |-> NoBody]

\* The tables as earlier runs left them: two users, a dashboard of each.
InitialUsers ==
    { [id |-> u, email |-> EmailOf(u),
       password_hash |-> HashPassword("password123", "salt1")] : u \in SeedUuids }

InitialDashboards ==
    { Dashboard(u, u, "Home", "[]", "{}", StartTime - 100) : u \in SeedUuids }

Init ==
    /\ config \in Configs
    /\ now = StartTime
    /\ users = InitialUsers
    /\ dashboards = InitialDashboards
    /\ issued = {}
    /\ cache = [k \in Keys |-> NoEntry]
    /\ req = [r \in Reqs |-> IdleReq]

\* ------------------------------------------------------------------------
\* Request inputs
\* ------------------------------------------------------------------------

\* Tokens a client may hold that this run did not issue: issued by an
\* earlier run or by another signer, altered, or not a token at all.
ForeignTokens ==
    {GarbageToken}
    \cup { GenerateToken(1, EmailOf(1), s, t0) :
             s \in Secrets,
             t0 \in { StartTime - TokenLifetime - Leeway - 1,
                      StartTime - TokenLifetime - 1,
                      StartTime - 10 } }
    \cup { Encode("HS256", [sub |-> "admin", email |-> "x@y.z",
                            exp |-> StartTime + TokenLifetime, iat |-> StartTime], s) :
             s \in Secrets }
    \cup { Encode("HS384", [sub |-> UuidToString(1), email |-> EmailOf(1),
                            exp |-> StartTime + TokenLifetime, iat |-> StartTime], s) :
             s \in Secrets }
    \cup { [GenerateToken(1, EmailOf(1), s, StartTime - 10)
              EXCEPT !.claims.sub = UuidToString(2)] : s \in Secrets }

AuthHeaders ==
    {NoHeader, OtherSchemeHeader}
    \cup { BearerHeader(t) : t \in issued \cup ForeignTokens }

LoginBodies ==
    { [email |-> e, password |-> p] :
        e \in {EmailOf(1), "nobody@b.com", ""}, p \in {"password123", "hunter2hunter2"} }

\* ------------------------------------------------------------------------
\* Actions: arrival, the gate, the clock
\* ------------------------------------------------------------------------

Finish(r, response) ==
    [req[r] EXCEPT !.pc = "done", !.resp = response, !.done_at = now]

\* Routing without the extractor: the handler body runs at once.
EntryPcUngated(route) == "handler"

\* Where a route's task starts: every handler but register and login takes
\* UserCtx as its first extractor, which runs before the handler body.
EntryPc(route) == IF route \in {"login", "register"} THEN "handler" ELSE "gate"

\* Request r arrives: axum spawns its task. Protected routes start at the
\* UserCtx extractor, public ones (login) in the handler.
Arrive(r, route, hdr, arg) ==
    /\ req[r].pc = "idle"
    /\ IF r = 1 THEN TRUE ELSE req[r - 1].pc # "idle"
    /\ req' = [req EXCEPT ![r] =
                 [IdleReq EXCEPT !.pc = EntryPc(route),
                                 !.route = route, !.hdr = hdr, !.arg = arg,
                                 !.after = { q \in Reqs : req[q].pc = "done" }]]
    /\ UNCHANGED <<config, now, users, dashboards, issued, cache>>

\* The UserCtx extractor runs before the handler body.
Gate(r) ==
    /\ req[r].pc = "gate"
    /\ LET g == FromRequestParts(req[r].hdr, config.jwt_secret, now) IN
       req' = [req EXCEPT ![r] =
                 IF g.ok
                   THEN [@ EXCEPT !.pc = "handler", !.ctx = g.val,
                                  !.gate = "Authorized", !.gate_at = now]
                   ELSE [Finish(r, IntoResponse(g.err)) EXCEPT
                           !.gate = g.err.kind, !.gate_at = now]]
    /\ UNCHANGED <<config, now, users, dashboards, issued, cache>>

\* Instants at which a held token changes validity.
TokenInstants ==
    UNION { {t.claims.exp, t.claims.exp + 1,
             t.claims.exp + Leeway, t.claims.exp + Leeway + 1} : t \in issued }

\* Time passes, to the next second or to an instant of interest.
Tick(t) ==
    /\ t > now
    /\ now' = t
    /\ cache' = [k \in Keys |-> IF Live(cache[k], t) THEN cache[k] ELSE NoEntry]
    /\ UNCHANGED <<config, users, dashboards, issued, req>>

\* ------------------------------------------------------------------------
\* Handlers: login and me (handlers/auth.rs)
\* ------------------------------------------------------------------------

UserByEmail(email) == { u \in users : u.email = email }

\* login with a message of its own for an email that has no user.
LoginOutcomeUserNotFound(payload, dbok) ==
    LET found == UserByEmail(payload.email)
        user == CHOOSE u \in found : TRUE
        valid == VerifyPassword(payload.password, user.password_hash)
    IN IF payload.email = "" \/ payload.password = ""
         THEN Err(AppErrorOf("Validation", "Email and password are required"))
       ELSE IF ~dbok
         THEN Err(AppErrorOf("Database", "sqlx error"))
       ELSE IF found = {}
         THEN Err(AppErrorOf("NotFound", "User not found"))
       ELSE IF ~valid.ok
         THEN Err(valid.err)
       ELSE IF ~valid.val
         THEN Err(AppErrorOf("Auth", "Invalid credentials"))
       ELSE Ok([token |-> GenerateToken(user.id, user.email, config.jwt_secret, now),
                user |-> [id |-> user.id, email |-> user.email]])

\* login issuing the token without looking at the password.
LoginOutcomeNoVerify(payload, dbok) ==
    LET found == UserByEmail(payload.email)
        user == CHOOSE u \in found : TRUE
    IN IF payload.email = "" \/ payload.password = ""
         THEN Err(AppErrorOf("Validation", "Email and password are required"))
       ELSE IF ~dbok
         THEN Err(AppErrorOf("Database", "sqlx error"))
       ELSE IF found = {}
         THEN Err(AppErrorOf("Auth", "Invalid credentials"))
       ELSE Ok([token |-> GenerateToken(user.id, user.email, config.jwt_secret, now),
                user |-> [id |-> user.id, email |-> user.email]])

\* login: validate, SELECT by email, verify_password, generate_token; the
\* AuthResponse or the error.
LoginOutcome(payload, dbok) ==
    LET found == UserByEmail(payload.email)
        user == CHOOSE u \in found : TRUE
        valid == VerifyPassword(payload.password, user.password_hash)
    IN IF payload.email = "" \/ payload.password = ""
         THEN Err(AppErrorOf("Validation", "Email and password are required"))
       ELSE IF ~dbok
         THEN Err(AppErrorOf("Database", "sqlx error"))
       ELSE IF found = {}
         THEN Err(AppErrorOf("Auth", "Invalid credentials"))
       ELSE IF ~valid.ok
         THEN Err(valid.err)
       ELSE IF ~valid.val
         THEN Err(AppErrorOf("Auth", "Invalid credentials"))
       ELSE Ok([token |-> GenerateToken(user.id, user.email, config.jwt_secret, now),
                user |-> [id |-> user.id, email |-> user.email]])

Login(r, dbok) ==
    /\ req[r].pc = "handler"
    /\ req[r].route = "login"
    /\ LET outcome == LoginOutcome(req[r].arg, dbok)
       IN /\ req' = [req EXCEPT ![r] =
                       [(IF outcome.ok
                           THEN Finish(r, [status |-> 200, body |-> outcome.val])
                           ELSE Finish(r, IntoResponse(outcome.err)))
                          EXCEPT !.queries = IF ~outcome.ok /\ outcome.err.kind = "Validation"
                                               THEN @ ELSE @ + 1]]
          /\ issued' = IF outcome.ok THEN issued \cup {outcome.val.token} ELSE issued
    /\ UNCHANGED <<config, now, users, dashboards, cache>>

\* The salts SaltString::generate may draw.
Salts == {"salt1", "salt2"}

\* A password of seven characters, the second of which takes two bytes in
\* UTF-8.
SevenCharPassword == "p{a-umlaut}sswrd"

\* The UTF-8 width in bytes of each character of a password.
CharWidths(password) ==
    CASE password = ""                -> <<>>
      [] password = "short"           -> <<1, 1, 1, 1, 1>>
      [] password = SevenCharPassword -> <<1, 2, 1, 1, 1, 1, 1>>
      [] password = "password123"     -> <<1, 1, 1, 1, 1, 1, 1, 1, 1, 1, 1>>
      [] password = "hunter2hunter2"  -> <<1, 1, 1, 1, 1, 1, 1, 1, 1, 1, 1, 1, 1, 1>>

RECURSIVE SumSeq(_)
SumSeq(widths) == IF widths = <<>> THEN 0 ELSE Head(widths) + SumSeq(Tail(widths))

\* String::len(): the length in bytes.
StrLen(password) == SumSeq(CharWidths(password))

\* str::chars().count()
CharCount(password) == Len(CharWidths(password))

RegisterBodies ==
    { [email |-> e, password |-> p] :
        e \in {EmailOf(3), EmailOf(1), ""},
        p \in {"password123", "short", SevenCharPassword, ""} }

\* register up to the SELECT: validation, then the lookup by email.
RegisterSelect(r, dbok) ==
    /\ req[r].pc = "handler"
    /\ req[r].route = "register"
    /\ LET payload == req[r].arg IN
       req' = [req EXCEPT ![r] =
                 IF payload.email = "" \/ payload.password = ""
                   THEN Finish(r, IntoResponse(AppErrorOf("Validation",
                                                          "Email and password are required")))
                 ELSE IF StrLen(payload.password) < 8
                   THEN Finish(r, IntoResponse(AppErrorOf("Validation",
                                                          "Password must be at least 8 characters")))
                 ELSE IF ~dbok
                   THEN [Finish(r, IntoResponse(AppErrorOf("Database", "sqlx error")))
                           EXCEPT !.queries = @ + 1]
                 ELSE IF UserByEmail(payload.email) # {}
                   THEN [Finish(r, IntoResponse(AppErrorOf("Validation",
                                                           "Email already registered")))
                           EXCEPT !.queries = @ + 1]
                 ELSE [@ EXCEPT !.pc = "insert", !.queries = @ + 1]]
    /\ UNCHANGED <<config, now, users, dashboards, issued, cache>>

\* The INSERT into a table with no unique index on email.
InsertUserNoUnique(table, email, password_hash) ==
    LET id == CHOOSE i \in Uuids : \A u \in table : u.id # i
    IN Ok([id |-> id, email |-> email, password_hash |-> password_hash])

\* INSERT INTO users .. RETURNING: the table keeps emails unique, and the
\* row gets an id no user has.
InsertUser(table, email, password_hash) ==
    IF \E u \in table : u.email = email
      THEN Err(AppErrorOf("Database", "unique violation"))
    ELSE LET id == CHOOSE i \in Uuids : \A u \in table : u.id # i
         IN Ok([id |-> id, email |-> email, password_hash |-> password_hash])

\* register from hash_password on: INSERT, generate_token, 201.
RegisterInsert(r, dbok, salt) ==
    /\ req[r].pc = "insert"
    /\ req[r].route = "register"
    /\ \E i \in Uuids : \A u \in users : u.id # i
    /\ LET payload == req[r].arg
           inserted == IF dbok
                         THEN InsertUser(users, payload.email,
                                         HashPassword(payload.password, salt))
                         ELSE Err(AppErrorOf("Database", "sqlx error"))
           user == inserted.val
           token == GenerateToken(user.id, user.email, config.jwt_secret, now)
       IN /\ req' = [req EXCEPT ![r] =
                       [(IF inserted.ok
                           THEN Finish(r, [status |-> 201,
                                           body |-> [token |-> token,
                                                     user |-> [id |-> user.id,
                                                               email |-> user.email]]])
                           ELSE Finish(r, IntoResponse(inserted.err)))
                          EXCEPT !.queries = @ + 1]]
          /\ users' = IF inserted.ok THEN users \cup {user} ELSE users
          /\ issued' = IF inserted.ok THEN issued \cup {token} ELSE issued
    /\ UNCHANGED <<config, now, dashboards, cache>>

\* me: SELECT the user by the gate's user_id (fetch_one: no row is an error)
Me(r, dbok) ==
    /\ req[r].pc = "handler"
    /\ req[r].route = "me"
    /\ LET found == { u \in users : u.id = req[r].ctx.user_id } IN
       req' = [req EXCEPT ![r] =
                 IF dbok /\ found # {}
                   THEN LET user == CHOOSE u \in found : TRUE IN
                        [Finish(r, [status |-> 200,
                                    body |-> [id |-> user.id, email |-> user.email]])
                           EXCEPT !.queries = @ + 1]
                   ELSE [Finish(r, IntoResponse(AppErrorOf("Database", "sqlx error")))
                           EXCEPT !.queries = @ + 1]]
    /\ UNCHANGED <<config, now, users, dashboards, issued, cache>>

\* ------------------------------------------------------------------------
\* Handlers: dashboards (handlers/dashboard.rs)
\* ------------------------------------------------------------------------

DashboardRoutes == {"dash_list", "dash_get", "dash_create", "dash_update", "dash_delete"}

DbError == AppErrorOf("Database", "sqlx error")

NotFound == AppErrorOf("NotFound", "Dashboard not found")

\* The SELECT without its user_id condition.
RowsById(id, user_id) == { d \in dashboards : d.id = id }

\* SELECT ... WHERE id = $1 AND user_id = $2
OwnedRows(id, user_id) == { d \in dashboards : d.id = id /\ d.user_id = user_id }

\* An Option<T> of the update payload.
None == "None"

\* Option::unwrap_or
UnwrapOr(option, default) == IF option = None THEN default ELSE option

\* The ids dashboards have been given so far: those of the first rows, of
\* the rows in the table, and of the rows create_dashboard has returned.
AssignedIds ==
    SeedUuids \cup { d.id : d \in dashboards }
      \cup { req[r].resp.body.id :
               r \in { q \in DOMAIN req : /\ req[q].route = "dash_create"
                                           /\ req[q].resp.status = 201 } }

\* The id the INSERT's RETURNING gives: a new one, never one a deleted row
\* had.
FreshId == 1 + (CHOOSE m \in AssignedIds : \A i \in AssignedIds : i <= m)

\* list_dashboards: SELECT ... WHERE user_id = $1
ListDashboards(r, dbok) ==
    /\ req[r].pc = "handler"
    /\ req[r].route = "dash_list"
    /\ req' = [req EXCEPT ![r] =
                 [(IF dbok
                     THEN Finish(r, [status |-> 200,
                                     body |-> { d \in dashboards : d.user_id = req[r].ctx.user_id }])
                     ELSE Finish(r, IntoResponse(DbError)))
                    EXCEPT !.queries = @ + 1]]
    /\ UNCHANGED <<config, now, users, dashboards, issued, cache>>

\* get_dashboard
GetDashboard(r, dbok) ==
    /\ req[r].pc = "handler"
    /\ req[r].route = "dash_get"
    /\ LET rows == OwnedRows(req[r].arg.id, req[r].ctx.user_id) IN
       req' = [req EXCEPT ![r] =
                 [(IF ~dbok THEN Finish(r, IntoResponse(DbError))
                   ELSE IF rows = {} THEN Finish(r, IntoResponse(NotFound))
                   ELSE Finish(r, [status |-> 200, body |-> CHOOSE d \in rows : TRUE]))
                    EXCEPT !.queries = @ + 1]]
    /\ UNCHANGED <<config, now, users, dashboards, issued, cache>>

\* create_dashboard: the name must not be blank; INSERT ... RETURNING
CreateDashboard(r, dbok) ==
    /\ req[r].pc = "handler"
    /\ req[r].route = "dash_create"
    /\ LET payload == req[r].arg.payload
           row == Dashboard(FreshId, req[r].ctx.user_id, payload.name,
                            payload.layout_json, payload.settings_json, now)
       IN IF payload.name = ""
            THEN /\ req' = [req EXCEPT ![r] =
                              Finish(r, IntoResponse(AppErrorOf("Validation",
                                                                "Dashboard name is required")))]
                 /\ UNCHANGED dashboards
          ELSE IF ~dbok
            THEN /\ req' = [req EXCEPT ![r] =
                              [Finish(r, IntoResponse(DbError)) EXCEPT !.queries = @ + 1]]
                 /\ UNCHANGED dashboards
          ELSE /\ req' = [req EXCEPT ![r] =
                            [Finish(r, [status |-> 201, body |-> row]) EXCEPT !.queries = @ + 1]]
               /\ dashboards' = dashboards \cup {row}
    /\ UNCHANGED <<config, now, users, issued, cache>>

\* update_dashboard, first query: SELECT the row the caller owns
UpdateDashboardSelect(r, dbok) ==
    /\ req[r].pc = "handler"
    /\ req[r].route = "dash_update"
    /\ LET rows == OwnedRows(req[r].arg.id, req[r].ctx.user_id) IN
       req' = [req EXCEPT ![r] =
                 [(IF ~dbok THEN Finish(r, IntoResponse(DbError))
                   ELSE IF rows = {} THEN Finish(r, IntoResponse(NotFound))
                   ELSE [req[r] EXCEPT !.pc = "update", !.row = CHOOSE d \in rows : TRUE])
                    EXCEPT !.queries = @ + 1]]
    /\ UNCHANGED <<config, now, users, dashboards, issued, cache>>

\* update_dashboard, second query: UPDATE ... SET all three fields WHERE
\* id = $4 RETURNING (fetch_one: no row is an error)
UpdateDashboardWrite(r, dbok) ==
    /\ req[r].pc = "update"
    /\ LET payload == req[r].arg.payload
           existing == req[r].row
           rows == { d \in dashboards : d.id = req[r].arg.id }
           old == CHOOSE d \in rows : TRUE
           new == [old EXCEPT !.name = UnwrapOr(payload.name, existing.name),
                              !.layout_json = UnwrapOr(payload.layout_json, existing.layout_json),
                              !.settings_json = UnwrapOr(payload.settings_json,
                                                         existing.settings_json),
                              !.updated_at = now]
       IN IF dbok /\ rows # {}
            THEN /\ req' = [req EXCEPT ![r] =
                              [Finish(r, [status |-> 200, body |-> new]) EXCEPT !.queries = @ + 1]]
                 /\ dashboards' = (dashboards \ {old}) \cup {new}
            ELSE /\ req' = [req EXCEPT ![r] =
                              [Finish(r, IntoResponse(DbError)) EXCEPT !.queries = @ + 1]]
                 /\ UNCHANGED dashboards
    /\ UNCHANGED <<config, now, users, issued, cache>>

\* delete_dashboard: DELETE ... WHERE id = $1 AND user_id = $2
DeleteDashboard(r, dbok) ==
    /\ req[r].pc = "handler"
    /\ req[r].route = "dash_delete"
    /\ LET rows == OwnedRows(req[r].arg.id, req[r].ctx.user_id) IN
       IF ~dbok
         THEN /\ req' = [req EXCEPT ![r] =
                           [Finish(r, IntoResponse(DbError)) EXCEPT !.queries = @ + 1]]
              /\ UNCHANGED dashboards
       ELSE IF rows = {}
         THEN /\ req' = [req EXCEPT ![r] =
                           [Finish(r, IntoResponse(NotFound)) EXCEPT !.queries = @ + 1]]
              /\ UNCHANGED dashboards
       ELSE /\ req' = [req EXCEPT ![r] =
                         [Finish(r, [status |-> 204, body |-> <<>>]) EXCEPT !.queries = @ + 1]]
            /\ dashboards' = dashboards \ rows
    /\ UNCHANGED <<config, now, users, issued, cache>>

\* ------------------------------------------------------------------------
\* Widget handlers (widgets/github.rs, weather.rs, news.rs, crypto.rs,
\* status.rs)
\* ------------------------------------------------------------------------

WidgetRoutes == Providers

\* What an outbound call can end in: no response (connect error, timeout),
\* or a response with a status and a body. A 2xx body is no JSON, JSON
\* without the expected fields, or complete JSON in one of two versions
\* (the upstream data changes over time).
Upstream(kind, status, body) == [kind |-> kind, status |-> status, body |-> body]

UpstreamOutcomes ==
    { Upstream("transport", 0, NoBody), Upstream("http", 404, Body(TRUE, FALSE, 0)),
      Upstream("http", 200, Body(FALSE, FALSE, 0)),
      Upstream("http", 200, Body(TRUE, FALSE, 0)),
      Upstream("http", 200, Body(TRUE, TRUE, 1)),
      Upstream("http", 200, Body(TRUE, TRUE, 2)) }

\* The status handler never reads the body.
StatusOutcomes ==
    { Upstream("transport", 0, NoBody), Upstream("http", 503, NoBody),
      Upstream("http", 200, NoBody) }

\* response.status().is_success()
IsSuccess(status) == status >= 200 /\ status < 300

\* str::to_uppercase / to_lowercase on the symbols of the model.
ToUpper(sym) == IF sym = "btc" THEN "BTC" ELSE sym

ToLower(sym) == CASE sym = "BTC" -> "btc" [] sym = "ETH" -> "eth" [] OTHER -> sym

\* An Option field is <<v>> for Some(v) and <<>> for None.
\* The body of a 2xx response mapped to the provider's result, or the
\* ExternalApi error of response.json().
MapBody(provider, param, body) ==
    IF ~body.json
      THEN Err(AppErrorOf("ExternalApi", "Failed to parse response"))
    ELSE CASE provider = "github" ->
              \* Vec<GitHubEvent> is deserialized strictly
              IF body.complete
                THEN Ok(Value(TypeOf(provider),
                        << [id |-> body.ver, event_type |-> "PushEvent",
                            repo |-> [name |-> "repo"], created_at |-> "t"] >>))
                ELSE Err(AppErrorOf("ExternalApi", "Failed to parse GitHub response"))
           [] provider = "weather" ->
              Ok(Value(TypeOf(provider),
                 IF body.complete
                   THEN [temp |-> body.ver, feels_like |-> body.ver, humidity |-> 50,
                         description |-> "clear sky", icon |-> "01d", city_name |-> "Paris"]
                   ELSE [temp |-> 0, feels_like |-> 0, humidity |-> 0,
                         description |-> "", icon |-> "", city_name |-> param[1]]))
           [] provider = "news" ->
              Ok(Value(TypeOf(provider),
                 IF body.complete
                   THEN << [title |-> "headline", description |-> <<body.ver>>, url |-> "http://n",
                            source |-> "Wire", published_at |-> "t", url_to_image |-> <<>>] >>
                   ELSE << [title |-> "", description |-> <<>>, url |-> "",
                            source |-> "Unknown", published_at |-> "", url_to_image |-> <<>>] >>))
           [] provider = "crypto" ->
              \* a complete body has an object per id; a partial one has an
              \* object without prices for the first id only
              Ok(Value(TypeOf(provider),
                 IF body.complete
                   THEN [i \in 1 .. Len(param) |->
                           [symbol |-> ToUpper(param[i]), name |-> param[i], price |-> body.ver,
                            change_24h |-> body.ver, change_percentage_24h |-> body.ver]]
                   ELSE << [symbol |-> ToUpper(param[1]), name |-> param[1], price |-> 0,
                            change_24h |-> 0, change_percentage_24h |-> 0] >>))

\* One StatusCheck of the status handler's loop.
StatusCheckOf(url, outcome) ==
    IF outcome.kind = "http"
      THEN [url |-> url, status |-> "up", status_code |-> <<outcome.status>>]
      ELSE [url |-> url, status |-> "down: error", status_code |-> <<>>]

\* The urls the status loop visits: trimmed, non-empty.
UrlsOf(param) == SelectSeq(param, LAMBDA u : u # "")

IsWidget(r) == req[r].route \in WidgetRoutes

\* The cache key built from the provider tag alone.
KeyOfProviderOnly(r) ==
    CacheKey(req[r].route, CHOOSE p \in ParamsOf(req[r].route) : \A q \in ParamsOf(req[r].route) : Len(p) >= Len(q))

\* let cache_key = format!("<provider>:{}", query.<param>)
KeyOf(r) == CacheKey(req[r].route, req[r].arg)

\* Handlers that look for their API key only when they build the upstream
\* request, after the cache.
ApiKeyMissingNotChecked(provider) == FALSE

\* weather and news need their API key before anything else.
ApiKeyMissing(provider) ==
    IF provider = "weather" THEN ~config.openweather_api_key
    ELSE IF provider = "news" THEN ~config.newsapi_api_key
    ELSE FALSE

\* Json(value) with 200
OkJson(value) == [status |-> 200, body |-> ToJson(value)]

\* Cache::get(..).await.ok().flatten(): an error is None
Flatten(got) == IF got.ok THEN got.val ELSE [some |-> FALSE, v |-> NoValue]

\* The handler with the cache's error propagated by `?`.
OnCacheGetPropagate(r, got) ==
    IF ~got.ok
      THEN Finish(r, IntoResponse(AppErrorOf("Redis", got.err)))
    ELSE IF got.val.some
      THEN Finish(r, OkJson(got.val.v))
      ELSE [req[r] EXCEPT
              !.pc = IF req[r].route = "status" /\ UrlsOf(req[r].arg) = <<>>
                       THEN "set" ELSE "fetch",
              !.result = IF req[r].route = "status"
                           THEN Value(TypeOf(req[r].route), <<>>) ELSE NoValue,
              !.idx = 1]

\* The handler going on to the fetch whatever Cache::get returned.
OnCacheGetRefetch(r, got) ==
    [req[r] EXCEPT
       !.pc = IF req[r].route = "status" /\ UrlsOf(req[r].arg) = <<>>
                THEN "set" ELSE "fetch",
       !.result = IF req[r].route = "status"
                    THEN Value(TypeOf(req[r].route), <<>>) ELSE NoValue,
       !.idx = 1]

\* The handler after Cache::get returned `got`: return the cached value on
\* Some, otherwise go on to the outbound fetch.
OnCacheGet(r, got) ==
    LET cached == Flatten(got) IN
    IF cached.some
      THEN Finish(r, OkJson(cached.v))
      ELSE [req[r] EXCEPT
              !.pc = IF req[r].route = "status" /\ UrlsOf(req[r].arg) = <<>>
                       THEN "set" ELSE "fetch",
              !.result = IF req[r].route = "status"
                           THEN Value(TypeOf(req[r].route), <<>>) ELSE NoValue,
              !.idx = 1]

\* The first part of every widget handler: the API key check (weather,
\* news), the cache key, Cache::get, and the early return on a hit.
WidgetCacheGet(r, connected) ==
    /\ req[r].pc = "handler"
    /\ IsWidget(r)
    /\ LET got == CacheGet(cache, TypeOf(req[r].route), KeyOf(r), connected) IN
       req' = [req EXCEPT ![r] =
            IF ApiKeyMissing(req[r].route)
              THEN Finish(r, IntoResponse(AppErrorOf("Internal", "API key not configured")))
              ELSE [OnCacheGet(r, got) EXCEPT
                      !.got = IF ~got.ok THEN "error"
                              ELSE IF got.val.some THEN "hit" ELSE "miss",
                      !.read = IF connected THEN cache[KeyOf(r)] ELSE NoEntry,
                      !.gets = @ + 1]]
    /\ UNCHANGED <<config, now, users, dashboards, issued, cache>>

\* The outbound call failed: no response, or a status that is no success.
FailedCall(outcome) == outcome.kind = "transport" \/ ~IsSuccess(outcome.status)

\* The handler without the is_success check.
OnUpstreamNoStatusCheck(r, outcome) ==
    LET mapped == MapBody(req[r].route, req[r].arg, outcome.body) IN
    IF outcome.kind = "transport"
      THEN Finish(r, IntoResponse(AppErrorOf("ExternalApi", "API error")))
    ELSE IF ~mapped.ok
      THEN Finish(r, IntoResponse(mapped.err))
    ELSE [req[r] EXCEPT !.pc = "set", !.result = mapped.val]

\* The handler sending its request once more after a first failed call.
OnUpstreamRetry(r, outcome) ==
    LET mapped == MapBody(req[r].route, req[r].arg, outcome.body) IN
    IF (outcome.kind = "transport" \/ ~IsSuccess(outcome.status)) /\ req[r].calls = 0
      THEN req[r]
    ELSE IF outcome.kind = "transport"
      THEN Finish(r, IntoResponse(AppErrorOf("ExternalApi", "API error")))
    ELSE IF ~IsSuccess(outcome.status)
      THEN Finish(r, IntoResponse(AppErrorOf("ExternalApi", "API returned status")))
    ELSE IF ~mapped.ok
      THEN Finish(r, IntoResponse(mapped.err))
    ELSE [req[r] EXCEPT !.pc = "set", !.result = mapped.val]

\* github, weather, news, crypto after the outbound call: map_err on the
\* send, the is_success check, the body parse and the mapping.
OnUpstream(r, outcome) ==
    LET mapped == MapBody(req[r].route, req[r].arg, outcome.body) IN
    IF outcome.kind = "transport"
      THEN Finish(r, IntoResponse(AppErrorOf("ExternalApi", "API error")))
    ELSE IF ~IsSuccess(outcome.status)
      THEN Finish(r, IntoResponse(AppErrorOf("ExternalApi", "API returned status")))
    ELSE IF ~mapped.ok
      THEN Finish(r, IntoResponse(mapped.err))
    ELSE [req[r] EXCEPT !.pc = "set", !.result = mapped.val]

WidgetFetch(r, outcome) ==
    /\ req[r].pc = "fetch"
    /\ req[r].route \in WidgetRoutes \ {"status"}
    /\ req' = [req EXCEPT ![r] =
                 [OnUpstream(r, outcome) EXCEPT
                    !.calls = @ + 1,
                    !.failed = IF FailedCall(outcome) THEN @ + 1 ELSE @,
                    !.last = IF FailedCall(outcome) THEN NoBody ELSE outcome.body]]
    /\ UNCHANGED <<config, now, users, dashboards, issued, cache>>

\* status: one turn of the loop over the urls: the call, and a check
\* pushed for either outcome.
OnStatusCheck(r, outcome) ==
    LET urls == UrlsOf(req[r].arg) IN
    [req[r] EXCEPT
       !.pc = IF req[r].idx = Len(urls) THEN "set" ELSE "fetch",
       !.idx = @ + 1,
       !.result = Value(@.type, Append(@.data, StatusCheckOf(urls[req[r].idx], outcome)))]

StatusFetch(r, outcome) ==
    /\ req[r].pc = "fetch"
    /\ req[r].route = "status"
    /\ req' = [req EXCEPT ![r] =
                 [OnStatusCheck(r, outcome) EXCEPT
                    !.calls = @ + 1,
                    !.failed = IF FailedCall(outcome) THEN @ + 1 ELSE @]]
    /\ UNCHANGED <<config, now, users, dashboards, issued, cache>>

\* The handler after Cache::set returned `written`: let _ = ..., then
\* Ok(Json(result)).
OnCacheSet(r, written) == Finish(r, OkJson(req[r].result))

\* The number of Cache::set calls applied so far, over all requests.
Applied == Cardinality({ q \in Reqs : req[q].stored > 0 })

\* The end of every widget handler.
WidgetCacheSet(r, connected) ==
    /\ req[r].pc = "set"
    /\ IsWidget(r)
    /\ LET written == CacheSet(cache, KeyOf(r), req[r].result, TtlOf(req[r].route),
                               connected, now, r)
       IN /\ cache' = IF written.ok THEN written.val ELSE cache
          /\ req' = [req EXCEPT ![r] =
                       [OnCacheSet(r, written) EXCEPT
                          !.sets = @ + 1,
                          !.stored = IF written.ok THEN Applied + 1 ELSE 0]]
    /\ UNCHANGED <<config, now, users, dashboards, issued>>

\* Another client of the store writes text that is no widget JSON under a
\* key some request in flight is about to read.
ForeignWrite(k) ==
    /\ \E r \in Reqs : req[r].pc = "handler" /\ IsWidget(r) /\ KeyOf(r) = k
    /\ cache[k].text.fmt # "raw"
    /\ cache' = [cache EXCEPT ![k] = [text |-> GarbageText, expires |-> NeverExpires, by |-> 0]]
    /\ UNCHANGED <<config, now, users, dashboards, issued, req>>

\* Instants at which a cache entry expires, and the second before.
CacheInstants ==
    UNION { {cache[k].expires - 1, cache[k].expires} : k \in {j \in Keys : cache[j].expires > 0} }

\* A token the service issued to user u shortly before this run.
LiveToken(u) == GenerateToken(u, EmailOf(u), config.jwt_secret, StartTime - 10)

\* A token of user u past its expiry and leeway.
ExpiredToken(u) ==
    GenerateToken(u, EmailOf(u), config.jwt_secret, StartTime - TokenLifetime - Leeway - 1)

\* Headers of the widget requests: none, or a live token of either user.
WidgetHeaders == { NoHeader, BearerHeader(LiveToken(1)), BearerHeader(LiveToken(2)) }

NextWidget ==
    \/ \E r \in Reqs, q \in Queries, h \in WidgetHeaders : Arrive(r, q.provider, h, q.param)
    \/ \E r \in Reqs : Gate(r)
    \/ \E r \in Reqs, connected \in BOOLEAN : WidgetCacheGet(r, connected)
    \/ \E r \in Reqs, o \in UpstreamOutcomes : WidgetFetch(r, o)
    \/ \E r \in Reqs, o \in StatusOutcomes : StatusFetch(r, o)
    \/ \E r \in Reqs, connected \in BOOLEAN : WidgetCacheSet(r, connected)
    \/ \E k \in Keys : ForeignWrite(k)
    \/ \E t \in CacheInstants : Tick(t)

SpecWidget == Init /\ [][NextWidget]_vars

\* ------------------------------------------------------------------------
\* Abandoned widget requests
\* ------------------------------------------------------------------------

\* Cache::set as SET followed by EXPIRE, dropped between the two commands.
AbandonedSetNoExpire(store, key, value, ttl, t, r, applied) ==
    IF applied
      THEN [store EXCEPT ![key] = [text |-> ToJson(value), expires |-> NeverExpires, by |-> r]]
      ELSE store

\* Cache::set dropped at one of its awaits: get_connection, or set_ex,
\* whose single SETEX command the store has applied in whole or not at all.
AbandonedSet(store, key, value, ttl, t, r, applied) ==
    IF applied
      THEN [store EXCEPT ![key] = [text |-> ToJson(value), expires |-> t + ttl, by |-> r]]
      ELSE store

\* The client disconnects and the runtime drops the handler's future at
\* the await it is suspended on: in Cache::get, in the outbound call, or in
\* Cache::set.
Cancel(r, applied) ==
    /\ req[r].pc \in {"handler", "fetch", "set"}
    /\ IsWidget(r)
    /\ applied => req[r].pc = "set"
    /\ cache' = AbandonedSet(cache, KeyOf(r), req[r].result, TtlOf(req[r].route), now, r, applied)
    /\ req' = [req EXCEPT ![r] =
                 [req[r] EXCEPT !.pc = "cancelled",
                                !.stored = IF applied THEN Applied + 1 ELSE 0,
                                !.done_at = now]]
    /\ UNCHANGED <<config, now, users, dashboards, issued>>

NextCancel ==
    \/ \E r \in Reqs, q \in Queries : Arrive(r, q.provider, BearerHeader(LiveToken(1)), q.param)
    \/ \E r \in Reqs : Gate(r)
    \/ \E r \in Reqs : WidgetCacheGet(r, TRUE)
    \/ \E r \in Reqs, o \in UpstreamOutcomes : WidgetFetch(r, o)
    \/ \E r \in Reqs, o \in StatusOutcomes : StatusFetch(r, o)
    \/ \E r \in Reqs, connected \in BOOLEAN : WidgetCacheSet(r, connected)
    \/ \E r \in Reqs, applied \in BOOLEAN : Cancel(r, applied)

SpecCancel == Init /\ [][NextCancel]_vars

\* ------------------------------------------------------------------------
\* Widget requests over a store that an earlier run has filled
\* ------------------------------------------------------------------------

\* Seconds an entry of an earlier run has left when this run starts.
PriorRemaining == 60

\* The entry an earlier run of the server, with the API keys configured,
\* left under the key of a weather or news query.
PriorEntry(provider, param) ==
    [text |-> ToJson(MapBody(provider, param, Body(TRUE, TRUE, 1)).val),
     expires |-> StartTime + PriorRemaining, by |-> 0]

\* The store survives a restart of the server: it is empty, or holds the
\* weather and news entries of the earlier run.
InitWarm ==
    /\ config \in Configs
    /\ now = StartTime
    /\ users = InitialUsers
    /\ dashboards = InitialDashboards
    /\ issued = {}
    /\ \E warm \in BOOLEAN :
         cache = [k \in Keys |->
                    IF warm /\ k[1] \in {"weather", "news"}
                      THEN PriorEntry(k[1], k[2]) ELSE NoEntry]
    /\ req = [r \in Reqs |-> IdleReq]

NextWarm ==
    \/ \E r \in Reqs, q \in Queries : Arrive(r, q.provider, BearerHeader(LiveToken(1)), q.param)
    \/ \E r \in Reqs : Gate(r)
    \/ \E r \in Reqs, connected \in BOOLEAN : WidgetCacheGet(r, connected)
    \/ \E r \in Reqs, o \in UpstreamOutcomes : WidgetFetch(r, o)
    \/ \E r \in Reqs, o \in StatusOutcomes : StatusFetch(r, o)
    \/ \E r \in Reqs : WidgetCacheSet(r, TRUE)
    \/ Tick(StartTime + PriorRemaining)

SpecWarm == InitWarm /\ [][NextWarm]_vars

\* ------------------------------------------------------------------------
\* All protected routes (main.rs, api_routes)
\* ------------------------------------------------------------------------

ProtectedRoutes == {"me"} \cup DashboardRoutes \cup WidgetRoutes

NoPayload == [name |-> None, layout_json |-> None, settings_json |-> None]

\* Path ids and JSON bodies of the dashboard requests.
DashboardArgs(route) ==
    CASE route = "dash_list" -> { [id |-> 0, payload |-> NoPayload] }
      [] route \in {"dash_get", "dash_delete"} ->
           { [id |-> i, payload |-> NoPayload] : i \in {1, 2, 3} }
      [] route = "dash_create" ->
           { [id |-> 0, payload |-> [name |-> n, layout_json |-> "null", settings_json |-> "null"]] :
               n \in {"Main", ""} }
      [] route = "dash_update" ->
           { [id |-> i, payload |-> pl] :
               i \in {1, 2, 3},
               pl \in { [name |-> "Renamed", layout_json |-> None, settings_json |-> None],
                        [name |-> None, layout_json |-> "[w]", settings_json |-> None] } }

RouteHeaders == { NoHeader, BearerHeader(LiveToken(1)), BearerHeader(ExpiredToken(1)) }

NextRoutes ==
    \/ \E r \in Reqs, h \in RouteHeaders : Arrive(r, "me", h, <<>>)
    \/ \E r \in Reqs, h \in RouteHeaders, route \in DashboardRoutes :
         \E a \in DashboardArgs(route) : Arrive(r, route, h, a)
    \/ \E r \in Reqs, h \in RouteHeaders, q \in Queries : Arrive(r, q.provider, h, q.param)
    \/ \E r \in Reqs : Gate(r)
    \/ \E r \in Reqs, dbok \in BOOLEAN : Me(r, dbok)
    \/ \E r \in Reqs, dbok \in BOOLEAN : ListDashboards(r, dbok)
    \/ \E r \in Reqs, dbok \in BOOLEAN : GetDashboard(r, dbok)
    \/ \E r \in Reqs, dbok \in BOOLEAN : CreateDashboard(r, dbok)
    \/ \E r \in Reqs, dbok \in BOOLEAN : UpdateDashboardSelect(r, dbok)
    \/ \E r \in Reqs, dbok \in BOOLEAN : UpdateDashboardWrite(r, dbok)
    \/ \E r \in Reqs, dbok \in BOOLEAN : DeleteDashboard(r, dbok)
    \/ \E r \in Reqs, connected \in BOOLEAN : WidgetCacheGet(r, connected)
    \/ \E r \in Reqs, o \in UpstreamOutcomes : WidgetFetch(r, o)
    \/ \E r \in Reqs, o \in StatusOutcomes : StatusFetch(r, o)
    \/ \E r \in Reqs, connected \in BOOLEAN : WidgetCacheSet(r, connected)

SpecRoutes == Init /\ [][NextRoutes]_vars

\* ------------------------------------------------------------------------
\* The dashboard routes, used by two users
\* ------------------------------------------------------------------------

DashHeaders == { BearerHeader(LiveToken(1)), BearerHeader(LiveToken(2)) }

NextDash ==
    \/ \E r \in Reqs, h \in DashHeaders, route \in DashboardRoutes :
         \E a \in DashboardArgs(route) : Arrive(r, route, h, a)
    \/ \E r \in Reqs : Gate(r)
    \/ \E r \in Reqs, dbok \in BOOLEAN : ListDashboards(r, dbok)
    \/ \E r \in Reqs, dbok \in BOOLEAN : GetDashboard(r, dbok)
    \/ \E r \in Reqs, dbok \in BOOLEAN : CreateDashboard(r, dbok)
    \/ \E r \in Reqs, dbok \in BOOLEAN : UpdateDashboardSelect(r, dbok)
    \/ \E r \in Reqs, dbok \in BOOLEAN : UpdateDashboardWrite(r, dbok)
    \/ \E r \in Reqs, dbok \in BOOLEAN : DeleteDashboard(r, dbok)

SpecDash == Init /\ [][NextDash]_vars

\* ------------------------------------------------------------------------
\* The token service and the gate over time
\* ------------------------------------------------------------------------

NextAuth ==
    \/ \E r \in Reqs, h \in AuthHeaders : Arrive(r, "me", h, <<>>)
    \/ \E r \in Reqs, b \in LoginBodies : Arrive(r, "login", NoHeader, b)
    \/ \E r \in Reqs : Gate(r)
    \/ \E r \in Reqs, dbok \in BOOLEAN : Login(r, dbok)
    \/ \E r \in Reqs, dbok \in BOOLEAN : Me(r, dbok)
    \/ \E t \in TokenInstants \cup {now + 1} :
         /\ IF t \in TokenInstants THEN TRUE ELSE t <= StartTime + MaxDrift
         /\ Tick(t)

SpecAuth == Init /\ [][NextAuth]_vars

\* ------------------------------------------------------------------------
\* Accounts: register, login and the routes a token opens, over time
\* ------------------------------------------------------------------------

\* The task of a request that has responded ends; its slot serves the next
\* connection.
Recycle(r) ==
    /\ req[r].pc = "done"
    /\ req' = [req EXCEPT ![r] = IdleReq]
    /\ UNCHANGED <<config, now, users, dashboards, issued, cache>>

AccountLoginBodies ==
    { [email |-> e, password |-> p] :
        e \in {EmailOf(3), EmailOf(1), "nobody@b.com", ""},
        p \in {"password123", "hunter2hunter2"} }

\* register and login, within the first seconds of the run.
NextAccounts ==
    \/ \E r \in Reqs, b \in RegisterBodies : Arrive(r, "register", NoHeader, b)
    \/ \E r \in Reqs, b \in AccountLoginBodies : Arrive(r, "login", NoHeader, b)
    \/ \E r \in Reqs, dbok \in BOOLEAN : RegisterSelect(r, dbok)
    \/ \E r \in Reqs, dbok \in BOOLEAN, salt \in Salts : RegisterInsert(r, dbok, salt)
    \/ \E r \in Reqs, dbok \in BOOLEAN : Login(r, dbok)
    \/ /\ now < StartTime + MaxDrift
       /\ Tick(now + 1)

SpecAccounts == Init /\ [][NextAccounts]_vars

\* A token of user u that an earlier run issued, not yet expired.
SessionHeaders == { BearerHeader(LiveToken(1)), BearerHeader(LiveToken(3)) }

\* The expiry of those tokens, and the first instant past the leeway.
SessionInstants ==
    LET exp == LiveToken(1).claims.exp
    IN {exp, exp + Leeway + 1}

\* Requests with a held token, among register, login, dashboard and widget
\* operations in any order, until the token has expired.
NextSession ==
    \/ \E r \in Reqs :
         /\ now = StartTime
         /\ Arrive(r, "register", NoHeader, [email |-> EmailOf(3), password |-> "password123"])
    \/ \E r \in Reqs :
         /\ now = StartTime
         /\ Arrive(r, "login", NoHeader, [email |-> EmailOf(1), password |-> "password123"])
    \/ \E r \in Reqs, h \in SessionHeaders : Arrive(r, "me", h, <<>>)
    \/ \E r \in Reqs, h \in SessionHeaders :
         Arrive(r, "dash_delete", h, [id |-> 1, payload |-> NoPayload])
    \/ \E r \in Reqs, h \in SessionHeaders : Arrive(r, "github", h, <<"octocat">>)
    \/ \E r \in Reqs : Gate(r)
    \/ \E r \in Reqs : RegisterSelect(r, TRUE)
    \/ \E r \in Reqs : RegisterInsert(r, TRUE, "salt2")
    \/ \E r \in Reqs : Login(r, TRUE)
    \/ \E r \in Reqs : Me(r, TRUE)
    \/ \E r \in Reqs : DeleteDashboard(r, TRUE)
    \/ \E r \in Reqs : WidgetCacheGet(r, TRUE)
    \/ \E r \in Reqs : WidgetFetch(r, Upstream("http", 200, Body(TRUE, TRUE, 1)))
    \/ \E r \in Reqs : WidgetCacheSet(r, TRUE)
    \/ \E r \in Reqs : Recycle(r)
    \/ \E t \in SessionInstants : Tick(t)

SpecSession == Init /\ [][NextSession]_vars

\* ------------------------------------------------------------------------
\* Properties of the token service and the gate
\* ------------------------------------------------------------------------

\* Request r has been through the UserCtx extractor.
Gated(r) == req[r].gate # "none"

HasJwt(r) == req[r].hdr.kind = "bearer" /\ req[r].hdr.token.jwt

\* The bearer token of r is one generate_token produces: HS256 over claims
\* with a user's id and exp = iat + 7 days, signed with the service secret.
FromGenerateToken(r) ==
    /\ HasJwt(r)
    /\ \E u \in Uuids :
         req[r].hdr.token =
           GenerateToken(u, req[r].hdr.token.claims.email, config.jwt_secret,
                         req[r].hdr.token.claims.iat)

\* C1 (as claimed): a token that generate_token issued at t0 is rejected by
\* the gate at every time t > t0 + 7 days; there is no grace window.
C1_RejectedOnceExpired ==
    \A r \in Reqs :
        (Gated(r) /\ FromGenerateToken(r)
           /\ req[r].gate_at > req[r].hdr.token.claims.iat + TokenLifetime)
        => req[r].gate # "Authorized"

\* What the code does: the rejection starts Leeway seconds after the expiry.
C1_RejectedAfterLeeway ==
    \A r \in Reqs :
        (Gated(r) /\ FromGenerateToken(r)
           /\ req[r].gate_at > req[r].hdr.token.claims.iat + TokenLifetime + Leeway)
        => req[r].gate = "Auth"

\* C2: a token whose signature was made under a secret other than the
\* configured one is never accepted: validate_token fails with
\* AppError::Auth for every claim content, and the gate answers 401.
C2_ForeignSecretRejected ==
    /\ \A s \in Secrets \ {config.jwt_secret}, u \in Uuids,
          t0 \in {now, now - TokenLifetime, StartTime} :
         LET v == ValidateToken(GenerateToken(u, EmailOf(u), s, t0), config.jwt_secret, now)
         IN ~v.ok /\ v.err.kind = "Auth"
    /\ \A r \in Reqs :
         (Gated(r) /\ HasJwt(r) /\ req[r].hdr.token.sig[1] # config.jwt_secret)
         => /\ req[r].gate = "Auth"
            /\ req[r].pc = "done"
            /\ req[r].resp.status = 401

C2_Witness ==
    \E r \in Reqs :
        /\ Gated(r) /\ HasJwt(r)
        /\ req[r].hdr.token.sig[1] # config.jwt_secret
        /\ req[r].hdr.token =
             GenerateToken(1, EmailOf(1), req[r].hdr.token.sig[1], StartTime - 10)
        /\ req[r].gate = "Auth"

\* C3: the gate ends in exactly one of Authorized(identity) and Rejected
\* with 401. No Bearer header: Unauthorized. A token that validate_token
\* refuses: Auth. A verified token whose sub is no UUID: Auth. Otherwise
\* UserCtx(user_id, email) from the claims, and the handler runs.
C3_GateOutcomes ==
    \A r \in Reqs : Gated(r) =>
        LET h == req[r].hdr
            v == ValidateToken(h.token, config.jwt_secret, req[r].gate_at)
        IN /\ req[r].gate \in {"Authorized", "Unauthorized", "Auth"}
           /\ (h.kind # "bearer") <=> (req[r].gate = "Unauthorized")
           /\ (h.kind = "bearer" /\ ~v.ok) => req[r].gate = "Auth"
           /\ (h.kind = "bearer" /\ v.ok /\ \A u \in Uuids : UuidToString(u) # v.val.sub)
                => /\ req[r].gate = "Auth"
                   /\ req[r].resp.body = [error |-> "Invalid user ID in token"]
           /\ (h.kind = "bearer" /\ v.ok /\ \E u \in Uuids : UuidToString(u) = v.val.sub)
                => /\ req[r].gate = "Authorized"
                   /\ UuidToString(req[r].ctx.user_id) = h.token.claims.sub
                   /\ req[r].ctx.email = h.token.claims.email
           /\ req[r].gate # "Authorized"
                => /\ req[r].pc = "done"
                   /\ req[r].resp.status = 401
                   /\ req[r].ctx = NoCtx
           /\ req[r].gate = "Authorized" => req[r].pc # "gate"

\* Both terminal outcomes and each rejection reason occur.
C3_Witness ==
    /\ \E r \in Reqs : req[r].gate = "Authorized" /\ req[r].ctx.user_id = 1
    /\ \E r \in Reqs : req[r].gate # "Authorized" /\ Gated(r)

C3_WitnessSubNotUuid ==
    \E r \in Reqs :
        /\ req[r].gate = "Auth"
        /\ req[r].resp.body = [error |-> "Invalid user ID in token"]

\* ------------------------------------------------------------------------
\* Properties of the protected routes
\* ------------------------------------------------------------------------

\* Database queries, cache gets and sets, and outbound calls made for r.
HandlerSteps(r) == req[r].queries + req[r].gets + req[r].calls + req[r].sets

InHandler(r) == req[r].pc \in {"handler", "update", "fetch", "set"}

Rejected(r) == req[r].gate \in {"Unauthorized", "Auth"}

\* C4: on every protected route no handler step (database query, cache
\* get or set, outbound fetch) runs for a request unless the gate reached
\* Authorized for that same request, and a rejected request leaves the
\* user store, the dashboard store and the cache unchanged: the step that
\* rejects changes none of them, a rejected request takes no further step,
\* and every change of a store is a step of an authorized request.
C4_HandlerOnlyIfAuthorized ==
    /\ [](\A r \in Reqs :
            /\ (req[r].route \in ProtectedRoutes /\ (HandlerSteps(r) > 0 \/ InHandler(r)))
                 => /\ req[r].gate = "Authorized"
                    /\ FromRequestParts(req[r].hdr, config.jwt_secret, req[r].gate_at).ok
            /\ Rejected(r) => (HandlerSteps(r) = 0 /\ req[r].pc = "done"))
    /\ [][ /\ \A r \in Reqs :
                /\ (req[r].pc = "gate" /\ Rejected(r)')
                     => UNCHANGED <<users, dashboards, cache>>
                /\ Rejected(r) => req'[r] = req[r]
           /\ (users' # users \/ dashboards' # dashboards \/ cache' # cache)
                => \E r \in Reqs : /\ req[r].gate = "Authorized"
                                   /\ req[r].route \in ProtectedRoutes
                                   /\ HandlerSteps(r)' > HandlerSteps(r) ]_vars

\* A request to delete dashboard 1 was rejected and the row is still there,
\* while an authorized request has written a store.
C4_Witness ==
    /\ \E r \in Reqs : /\ Rejected(r)
                       /\ req[r].route = "dash_delete"
                       /\ req[r].arg.id = 1
                       /\ \E d \in dashboards : d.id = 1
    /\ \E r \in Reqs : /\ req[r].gate = "Authorized"
                       /\ req[r].pc = "done"
                       /\ HandlerSteps(r) > 0
                       /\ (dashboards # InitialDashboards \/ req[r].stored > 0)

\* ------------------------------------------------------------------------
\* Properties of the widget handlers and the cache
\* ------------------------------------------------------------------------

\* The outbound calls of one complete fetch of request r's query.
ExpectedCalls(r) == IF req[r].route = "status" THEN Len(UrlsOf(req[r].arg)) ELSE 1

\* The step is request r's Cache::get.
GetStep(r) == req[r].pc = "handler" /\ IsWidget(r) /\ req'[r].gets = 1

\* C5: in every provider handler, when Cache::get returns a deserializable
\* entry for the query's key, the handler returns that entry at once: the
\* response is 200 with the entry's content, and the request makes no
\* outbound call and no cache write.
C5_HitReturnsEntry ==
    /\ [](\A r \in Reqs : req[r].got = "hit" =>
            /\ FromJson(TypeOf(req[r].route), req[r].read.text).ok
            /\ req[r].pc = "done"
            /\ req[r].resp = [status |-> 200, body |-> req[r].read.text]
            /\ req[r].calls = 0
            /\ req[r].sets = 0
            /\ req[r].stored = 0)
    /\ [][\A r \in Reqs :
            (GetStep(r) /\ FromJson(TypeOf(req[r].route), cache[KeyOf(r)].text).ok
               /\ req'[r].read = cache[KeyOf(r)])
            => /\ req'[r].got = "hit"
               /\ req'[r].pc = "done"
               /\ cache' = cache]_vars

\* A request of each provider was served an entry another request wrote.
C5_Witness ==
    \E r \in Reqs :
        /\ req[r].got = "hit"
        /\ req[r].read.by \in Reqs \ {r}
        /\ req[r].resp.body = ToJson(req[req[r].read.by].result)
        /\ req[r].route = "crypto"

\* C6: fail-open. A Cache::get that fails (store unreachable, or text that
\* does not deserialize) leads to the same next step as an absent key, the
\* live fetch; a failing Cache::set leaves the response the fetched result;
\* no response is the cache's error.
C6_FailOpen ==
    /\ [](\A r \in Reqs :
            /\ req[r].resp.body # [error |-> "Cache error occurred"]
            /\ (IsWidget(r) /\ req[r].sets = 1)
                 => /\ req[r].pc = "done"
                    /\ req[r].resp = [status |-> 200, body |-> ToJson(req[r].result)]
            /\ (IsWidget(r) /\ req[r].got \in {"miss", "error"} /\ req[r].pc = "done"
                  /\ req[r].failed = 0 /\ req[r].resp.status # 200)
                 => /\ req[r].resp.status = 502
                    /\ req[r].calls = 1)
    /\ [][\A r \in Reqs :
            (GetStep(r) /\ req'[r].got \in {"miss", "error"})
            => /\ req'[r].pc = IF ExpectedCalls(r) = 0 THEN "set" ELSE "fetch"
               /\ req'[r].resp = NoResp
               /\ req'[r].calls = 0
               /\ req'[r].idx = 1
               /\ cache' = cache]_vars

\* A request read text that does not deserialize, fetched, could not reach
\* the store for its Cache::set, and answered 200 with the fetched result.
C6_Witness ==
    \E r \in Reqs :
        /\ req[r].got = "error"
        /\ req[r].read.text = GarbageText
        /\ req[r].read # NoEntry
        /\ req[r].calls = 1
        /\ req[r].sets = 1
        /\ req[r].stored = 0
        /\ req[r].resp = [status |-> 200, body |-> ToJson(req[r].result)]

\* The request ended in AppError::ExternalApi.
ExternalApiResponse(r) ==
    req[r].resp = [status |-> 502, body |-> [error |-> "External service error"]]

StatusResultOk(r) ==
    LET checks == req[r].result.data IN
    /\ Len(checks) = Len(UrlsOf(req[r].arg))
    /\ req[r].calls = Len(checks)
    /\ \A i \in 1 .. Len(checks) :
         /\ checks[i].url = UrlsOf(req[r].arg)[i]
         /\ checks[i].status \in {"up", "down: error"}
         /\ (checks[i].status = "up") <=> (checks[i].status_code # <<>>)
    /\ req[r].failed =
         Cardinality({ i \in 1 .. Len(checks) :
                         IF checks[i].status = "up"
                           THEN ~IsSuccess(checks[i].status_code[1]) ELSE TRUE })

SameQuery(r, q) == req[r].route = req[q].route /\ req[r].arg = req[q].arg

\* Request q arrived after request r had responded.
Sequential(r, q) == r \in req[q].after

\* The entry a Cache::set of request r writes when it is applied.
EntryOf(r) ==
    [text |-> ToJson(req[r].result),
     expires |-> req[r].done_at + TtlOf(req[r].route), by |-> r]

\* Request r went past its Cache::get to the live fetch.
Fetched(r) == req[r].got \in {"miss", "error"}

\* C8 (as claimed): for every provider and query, of two sequential
\* identical queries, the second starting after the first has responded and
\* within the provider's TTL, exactly one outbound fetch is made in total:
\* the second makes no outbound call and returns the first's content.
C8_SequentialOneFetch ==
    \A r1 \in Reqs : \A r2 \in Reqs \ {r1} :
        (/\ IsWidget(r1) /\ SameQuery(r1, r2) /\ Sequential(r1, r2)
         /\ req[r1].resp.status = 200
         /\ req[r2].gate = "Authorized" /\ req[r2].pc = "done"
         /\ req[r2].done_at < req[r1].done_at + TtlOf(req[r1].route))
        => /\ Fetched(r1) /\ ~Fetched(r2)
           /\ req[r2].calls = 0
           /\ req[r2].resp = req[r1].resp

\* C8 (amended): when the first query's Cache::set was applied and the
\* second query, starting after the first has responded, reads the key
\* while the store is reachable and still holds that entry (within the TTL
\* of that write), the second makes no outbound call and no cache write and
\* returns content identical to the first; the first made one fetch: one
\* outbound call, or for status one call per non-empty url.
C8_SequentialHitAfterStore ==
    \A r1 \in Reqs : \A r2 \in Reqs \ {r1} :
        (/\ IsWidget(r1) /\ Sequential(r1, r2)
         /\ req[r1].stored > 0
         /\ req[r2].gets = 1 /\ req[r2].read = EntryOf(r1))
        => /\ SameQuery(r1, r2)
           /\ req[r2].got = "hit"
           /\ req[r2].calls = 0
           /\ req[r2].sets = 0
           /\ req[r2].resp = req[r1].resp
           /\ req[r1].calls = ExpectedCalls(r1)
           /\ req[r2].done_at < req[r1].done_at + TtlOf(req[r1].route)

\* The second of two sequential status queries for two urls was served the
\* first's checks, one second before they expire.
C8_Witness ==
    \E r1 \in Reqs : \E r2 \in Reqs \ {r1} :
        /\ Sequential(r1, r2)
        /\ req[r1].route = "status" /\ req[r1].calls = 2
        /\ req[r1].stored > 0
        /\ req[r2].got = "hit" /\ req[r2].read = EntryOf(r1)
        /\ req[r2].resp = req[r1].resp
        /\ req[r2].done_at = req[r1].done_at + StatusTtl - 1
        /\ req[r2].ctx # req[r1].ctx

\* The step is a step of a handler.
HandlerStep == \E r \in Reqs : req'[r] # req[r] /\ req[r].pc \in {"handler", "fetch", "set"}

\* C9 (as claimed): once a key holds an entry, no handler changes the
\* key's stored value until the entry's TTL expires or the key is deleted,
\* over every interleaving of requests.
C9_LiveEntryNotOverwritten ==
    [][\A k \in Keys :
         (Live(cache[k], now) /\ HandlerStep) => cache'[k].text = cache[k].text]_vars

\* C9 (amended): a handler changes a key that holds a live entry only by
\* the Cache::set that ends a request for that key whose own Cache::get
\* found the key empty or failed, before the entry was written or while the
\* store was unreachable or held text that does not deserialize; that set
\* replaces the whole entry and restarts its TTL, and no other key changes.
\* A request that was served from the cache never writes.
C9_OverwriteOnlyByLateSet ==
    [][\A k \in Keys :
         (Live(cache[k], now) /\ HandlerStep /\ cache'[k] # cache[k])
         => \E r \in Reqs :
              /\ KeyOf(r) = k
              /\ req[r].pc = "set" /\ req'[r].pc = "done"
              /\ req[r].got \in {"miss", "error"}
              /\ req[r].got = "miss" => req[r].read = NoEntry
              /\ cache'[k] = [text |-> ToJson(req[r].result),
                              expires |-> now + TtlOf(req[r].route), by |-> r]
              /\ \A j \in Keys \ {k} : cache'[j] = cache[j]]_vars

\* Two requests for one key both missed, fetched different results, and
\* the second set replaced the live entry of the first.
C9_Witness ==
    \E r1 \in Reqs : \E r2 \in Reqs \ {r1} :
        /\ SameQuery(r1, r2) /\ IsWidget(r1)
        /\ req[r1].got = "miss" /\ req[r2].got = "miss"
        /\ req[r1].stored = 1 /\ req[r2].stored = 2
        /\ req[r1].result # req[r2].result
        /\ req[r2].done_at < req[r1].done_at + TtlOf(req[r1].route)
        /\ cache[KeyOf(r1)] = EntryOf(r2)

\* All requests are the same authorized widget query, each arrived before
\* any of them had responded.
ConcurrentIdentical ==
    \A r \in Reqs :
        /\ IsWidget(r) /\ SameQuery(r, 1)
        /\ req[r].gate = "Authorized"
        /\ req[r].after = {}

AllDone == \A r \in Reqs : req[r].pc = "done"

RECURSIVE SumCalls(_)
SumCalls(n) == IF n = 0 THEN 0 ELSE req[n].calls + SumCalls(n - 1)

\* The requests whose Cache::set was applied, and the last of them.
Writers == { r \in Reqs : req[r].stored > 0 }

LastWriter == CHOOSE w \in Writers : \A r \in Writers : req[r].stored <= req[w].stored

\* The key holds the complete entry of the last applied Cache::set.
LastWriterWins(k) ==
    IF Writers = {} THEN cache[k].by \notin Reqs
    ELSE IF Live(EntryOf(LastWriter), now) /\ cache[k].by # 0
      THEN cache[k] = EntryOf(LastWriter)
      ELSE cache[k].by \notin Reqs

\* C10 (as claimed): under any interleaving of N concurrent identical
\* queries on an empty key, every request ends with a response that is the
\* cached entry or its own fetched result, between 1 and N outbound fetches
\* are made, and when all have finished the key holds exactly the complete
\* value of the last applied Cache::set.
C10_ConcurrentIdentical ==
    (ConcurrentIdentical /\ AllDone)
    => /\ \A r \in Reqs :
            /\ req[r].resp.status = 200
            /\ IF req[r].got = "hit"
                 THEN req[r].resp.body = req[r].read.text
                 ELSE req[r].resp.body = ToJson(req[r].result) /\ req[r].calls > 0
       /\ SumCalls(NumRequests) >= 1
       /\ SumCalls(NumRequests) <= NumRequests
       /\ Writers # {}
       /\ cache[KeyOf(1)] = EntryOf(LastWriter)

\* C10 (amended): under any interleaving of N concurrent identical
\* queries on an empty key, every request that ends, ends in one of: 200
\* with the cached entry another of the requests wrote (no outbound call);
\* 200 with its own fetched result after one fetch (one call, or for status
\* one per non-empty url) and one Cache::set; 502 after one failed or
\* unparsable outbound call and no cache write; 500 before any cache or
\* outbound step when the provider's API key is not configured. No request
\* makes more than one fetch. The key holds the complete entry of the last
\* Cache::set that was applied, never a mixture, or nothing of the
\* requests' when no set was applied or that entry's TTL has run out.
C10_ConcurrentLastWriterWins ==
    ConcurrentIdentical
    => /\ \A r \in Reqs :
            /\ req[r].calls <= ExpectedCalls(r)
            /\ req[r].pc = "done" =>
                 CASE req[r].got = "hit" ->
                        /\ req[r].resp = [status |-> 200, body |-> req[r].read.text]
                        /\ req[r].read.by \in Writers \ {r}
                        /\ req[r].read.text = ToJson(req[req[r].read.by].result)
                        /\ req[r].calls = 0 /\ req[r].sets = 0
                   [] req[r].resp.status = 200 /\ req[r].got # "hit" ->
                        /\ req[r].resp.body = ToJson(req[r].result)
                        /\ req[r].calls = ExpectedCalls(r)
                        /\ req[r].sets = 1
                   [] req[r].resp.status = 502 ->
                        /\ ExternalApiResponse(r)
                        /\ req[r].route # "status"
                        /\ req[r].calls = 1 /\ req[r].sets = 0
                   [] req[r].resp.status = 500 ->
                        /\ ApiKeyMissing(req[r].route)
                        /\ HandlerSteps(r) = 0
                   [] OTHER -> FALSE
       /\ LastWriterWins(KeyOf(1))

\* Two concurrent identical queries both missed and fetched different
\* results; both sets were applied and the key holds the second one's.
C10_Witness ==
    /\ ConcurrentIdentical /\ AllDone
    /\ Cardinality(Writers) = NumRequests
    /\ \E r \in Reqs : req[r].result # req[LastWriter].result
    /\ cache[KeyOf(1)] = EntryOf(LastWriter)
    /\ SumCalls(NumRequests) = NumRequests

\* ------------------------------------------------------------------------
\* Properties of token failures and the token round trip
\* ------------------------------------------------------------------------

\* Request r carried a Bearer token that validate_token refused at the gate.
TokenRefused(r) ==
    /\ Gated(r)
    /\ req[r].hdr.kind = "bearer"
    /\ ~ValidateToken(req[r].hdr.token, config.jwt_secret, req[r].gate_at).ok

\* C11 (as claimed): every token verification failure looks the same to
\* the end user: any two requests whose tokens validate_token refused
\* (malformed, wrong signature, expired) get the same status and the same
\* JSON body.
C11_UniformTokenFailure ==
    \A r \in Reqs : \A q \in Reqs :
        (TokenRefused(r) /\ TokenRefused(q)) => req[r].resp = req[q].resp

\* C13: token round trip. For every user id u, email e and secret s,
\* validate_token(generate_token(u, e, s), s) right after issuance succeeds
\* with sub = u, email = e, iat = the issuance time and exp = iat + 7 days,
\* and the gate yields UserCtx(u, e); so a token that login issued, sent
\* back in the second of its issuance, is Authorized as that user.
C13_TokenRoundTrip ==
    /\ \A u \in Uuids, e \in {EmailOf(1), EmailOf(2), "c@d.org"}, s \in Secrets :
         LET token == GenerateToken(u, e, s, now)
             v == ValidateToken(token, s, now)
         IN /\ v.ok
            /\ ParseUuid(v.val.sub) = Ok(u)
            /\ v.val.email = e
            /\ v.val.iat = now
            /\ v.val.exp = now + 7 * 24 * 3600
            /\ FromRequestParts(BearerHeader(token), s, now) = Ok([user_id |-> u, email |-> e])
    /\ \A r \in Reqs :
         (Gated(r) /\ HasJwt(r) /\ req[r].hdr.token \in issued
            /\ req[r].gate_at = req[r].hdr.token.claims.iat)
         => /\ req[r].gate = "Authorized"
            /\ UuidToString(req[r].ctx.user_id) = req[r].hdr.token.claims.sub
            /\ req[r].ctx.email = req[r].hdr.token.claims.email
            /\ \E user \in users : user.id = req[r].ctx.user_id /\ user.email = req[r].ctx.email

\* A token issued by login was sent back in the same second and the gate
\* let it in as user 1.
C13_Witness ==
    \E r \in Reqs :
        /\ req[r].gate = "Authorized"
        /\ req[r].hdr.token \in issued
        /\ req[r].gate_at = req[r].hdr.token.claims.iat
        /\ req[r].ctx = [user_id |-> 1, email |-> EmailOf(1)]

\* C12: token validity is stateless. A token that generate_token signed
\* with the service secret is Authorized at every time up to its expiry,
\* as the user its claims name, whatever register, login, dashboard and
\* widget operations ran before and whether or not the users table has that
\* user or this run issued the token; and two requests with the same header
\* gated at the same time get the same outcome.
C12_StatelessValidity ==
    /\ \A r \in Reqs :
         (Gated(r) /\ FromGenerateToken(r)
            /\ req[r].gate_at <= req[r].hdr.token.claims.exp)
         => /\ req[r].gate = "Authorized"
            /\ UuidToString(req[r].ctx.user_id) = req[r].hdr.token.claims.sub
            /\ req[r].ctx.email = req[r].hdr.token.claims.email
    /\ \A r \in Reqs : \A q \in Reqs :
         (Gated(r) /\ Gated(q) /\ req[r].hdr = req[q].hdr /\ req[r].gate_at = req[q].gate_at)
         => /\ req[r].gate = req[q].gate
            /\ req[r].ctx = req[q].ctx

\* At its expiry instant a token this run never issued, of a user the table
\* does not have, is let in, after a login and a dashboard deletion.
C12_Witness ==
    \E r \in Reqs :
        /\ req[r].gate = "Authorized"
        /\ req[r].hdr.token = LiveToken(3)
        /\ req[r].hdr.token \notin issued
        /\ req[r].gate_at = req[r].hdr.token.claims.exp
        /\ \A u \in users : u.id # 3
        /\ issued # {}
        /\ dashboards # InitialDashboards

\* ------------------------------------------------------------------------
\* Properties of the cache write and the cache key
\* ------------------------------------------------------------------------

\* Request r takes its Cache::set step.
SetStep(r) == req[r].pc = "set" /\ IsWidget(r) /\ req'[r].pc = "done"

\* The TTL of each provider, as the claim lists them.
ListedTtl(provider) ==
    CASE provider = "github"  -> 300
      [] provider = "weather" -> 600
      [] provider = "news"    -> 900
      [] provider = "crypto"  -> 300
      [] provider = "status"  -> 120

\* C14: after a successful fetch on a miss each provider handler attempts
\* exactly one Cache::set: on the key of its query, of the full result it
\* returns in the 200 response, expiring the listed TTL after the write
\* (github 300, weather 600, news 900, crypto 300, status 120), and a set
\* that is not applied changes nothing; a request that hit or failed
\* attempts none. Every TTL is between 2 and 15 minutes, status has the
\* shortest and news the longest.
C14_OneSetFullResultFixedTtl ==
    /\ [][\A r \in Reqs : SetStep(r) =>
            /\ Fetched(r)
            /\ req[r].sets = 0 /\ req'[r].sets = 1
            /\ req'[r].resp = [status |-> 200, body |-> ToJson(req[r].result)]
            /\ FromJson(TypeOf(req[r].route), ToJson(req[r].result)).ok
            /\ IF req'[r].stored > 0
                 THEN cache' = [cache EXCEPT ![CacheKey(req[r].route, req[r].arg)] =
                                  [text |-> req'[r].resp.body,
                                   expires |-> now + ListedTtl(req[r].route),
                                   by |-> r]]
                 ELSE cache' = cache]_vars
    /\ [](\A r \in Reqs : (IsWidget(r) /\ req[r].pc = "done") =>
            req[r].sets = IF Fetched(r) /\ req[r].resp.status = 200 THEN 1 ELSE 0)
    /\ [](\A p \in Providers :
            /\ TtlOf(p) = ListedTtl(p)
            /\ 2 * 60 <= TtlOf(p) /\ TtlOf(p) <= 15 * 60
            /\ TtlOf("status") <= TtlOf(p) /\ TtlOf(p) <= TtlOf("news")
            /\ (p # "status" => TtlOf("status") < TtlOf(p))
            /\ (p # "news" => TtlOf(p) < TtlOf("news")))

\* A news request fetched on a miss, answered 200, and its one set left the
\* result under its key for 900 seconds.
C14_Witness ==
    \E r \in Reqs :
        /\ req[r].route = "news" /\ req[r].pc = "done"
        /\ req[r].got = "miss" /\ req[r].calls = 1 /\ req[r].sets = 1
        /\ req[r].resp.status = 200
        /\ cache[KeyOf(r)] = [text |-> req[r].resp.body, expires |-> req[r].done_at + 900, by |-> r]

\* Request q got, on a hit, the entry request r wrote.
ServedBy(q, r) == req[q].got = "hit" /\ req[q].read.by = r /\ req[r].stored > 0

\* C15: the cache key is a function of the provider and the parameter
\* string alone, not of the user: requests with the same provider and
\* parameter use the same key whoever sent them, so a request that gets the
\* entry another user's identical query wrote answers with that content and
\* makes no outbound call; requests that differ in provider or parameter
\* use different keys, and no request is served an entry written by a
\* request of another query.
C15_KeyPerQueryNotPerUser ==
    /\ \A r \in Reqs : \A q \in Reqs :
         (IsWidget(r) /\ IsWidget(q)) =>
            /\ (KeyOf(r) = KeyOf(q)) <=> SameQuery(r, q)
            /\ ServedBy(q, r) =>
                 /\ SameQuery(r, q)
                 /\ req[q].calls = 0 /\ req[q].sets = 0
                 /\ req[q].pc = "done"
                 /\ req[q].resp = [status |-> 200, body |-> req[r].resp.body]
    /\ \A r \in Reqs :
         (IsWidget(r) /\ req[r].stored > 0) => req[r].pc = "done" /\ req[r].resp.status = 200

\* One user's request fetched and stored; another user's identical request
\* was served that entry.
C15_Witness ==
    \E r \in Reqs : \E q \in Reqs :
        /\ ServedBy(q, r)
        /\ req[r].gate = "Authorized" /\ req[q].gate = "Authorized"
        /\ req[r].ctx.user_id # req[q].ctx.user_id
        /\ req[r].calls > 0 /\ req[q].calls = 0

\* ------------------------------------------------------------------------
\* Properties of abandoned requests
\* ------------------------------------------------------------------------

\* Request r is dropped in this step.
CancelStep(r) == req[r].pc \in {"handler", "fetch", "set"} /\ req'[r].pc = "cancelled"

\* The result of request r is the whole result of its query: a value of the
\* provider's type, for status with a check of every url.
CompleteResult(r) ==
    /\ req[r].result.type = TypeOf(req[r].route)
    /\ req[r].route = "status" => Len(req[r].result.data) = Len(UrlsOf(req[r].arg))

\* C16: a widget request abandoned during its cache get, its outbound
\* fetch or its cache set leaves every other key as it was, and leaves its
\* own key either as it was or, if it was dropped in the cache set, holding
\* the complete fetched result with the provider's TTL; its steps before
\* the set change no entry; so every entry in the store is the complete
\* result of the request that wrote it.
C16_CancellationSafe ==
    /\ [][\A r \in Reqs : CancelStep(r) =>
            /\ \A k \in Keys \ {KeyOf(r)} : cache'[k] = cache[k]
            /\ IF cache'[KeyOf(r)] = cache[KeyOf(r)] THEN TRUE
               ELSE /\ req[r].pc = "set"
                    /\ CompleteResult(r)
                    /\ cache'[KeyOf(r)] =
                         [text |-> ToJson(req[r].result),
                          expires |-> now + ListedTtl(req[r].route), by |-> r]]_vars
    /\ [][\A r \in Reqs : (req'[r] # req[r] /\ req[r].pc \in {"handler", "fetch"})
            => cache' = cache]_vars
    /\ [](\A k \in Keys : cache[k] # NoEntry =>
            LET w == cache[k].by IN
            /\ w \in Reqs /\ KeyOf(w) = k /\ CompleteResult(w)
            /\ cache[k].text = ToJson(req[w].result)
            /\ cache[k].expires = req[w].done_at + ListedTtl(req[w].route))

\* One request was dropped in its cache set after the store applied the
\* write, another in the middle of the status loop with one check of two
\* collected, and its key holds nothing.
C16_Witness ==
    \E r \in Reqs : \E q \in Reqs :
        /\ req[r].pc = "cancelled" /\ req[r].stored > 0
        /\ cache[KeyOf(r)].by = r
        /\ req[q].pc = "cancelled" /\ req[q].route = "status"
        /\ Len(req[q].result.data) = 1 /\ Len(UrlsOf(req[q].arg)) = 2
        /\ cache[KeyOf(q)] = NoEntry

\* ------------------------------------------------------------------------
\* Properties of register and login
\* ------------------------------------------------------------------------

\* Request r runs the login handler in this step.
LoginStep(r) == req[r].pc = "handler" /\ req[r].route = "login" /\ req'[r].pc = "done"

\* No user has the email, or the password is not the one the user's stored
\* hash was made from.
BadCredentials(payload) ==
    \/ \A u \in users : u.email # payload.email
    \/ \E u \in users : /\ u.email = payload.email
                        /\ u.password_hash[3] # <<u.password_hash[2], payload.password>>

InvalidCredentials == [status |-> 401, body |-> [error |-> "Invalid credentials"]]

\* C17: a login with an email and a password, whose database query
\* succeeds, answers 401 {"error":"Invalid credentials"} when no user has
\* the email and when the user's password does not verify, the same
\* response in both cases; it issues no token and leaves the users table
\* unchanged.
C17_LoginFailsUniformly ==
    [][\A r \in Reqs :
         (/\ LoginStep(r)
          /\ req[r].arg.email # "" /\ req[r].arg.password # ""
          /\ req'[r].resp.status # 500
          /\ BadCredentials(req[r].arg))
         => /\ req'[r].resp = InvalidCredentials
            /\ issued' = issued
            /\ users' = users]_vars

\* A login for an email nobody has and a login with a wrong password for a
\* registered email were both answered, with equal responses.
C17_Witness ==
    \E r \in Reqs : \E q \in Reqs :
        /\ req[r].route = "login" /\ req[r].pc = "done"
        /\ req[q].route = "login" /\ req[q].pc = "done"
        /\ req[r].arg.email = "nobody@b.com"
        /\ req[q].arg = [email |-> EmailOf(1), password |-> "hunter2hunter2"]
        /\ req[r].resp = InvalidCredentials
        /\ req[q].resp = req[r].resp
        /\ issued = {}

\* Request q is a login with the credentials register request r was
\* answered 201 for, arriving after that answer, and its database query
\* succeeded.
LoginAfterRegister(r, q) ==
    /\ req[r].route = "register" /\ req[r].pc = "done" /\ req[r].resp.status = 201
    /\ req[q].route = "login" /\ req[q].pc = "done"
    /\ req[q].arg = req[r].arg
    /\ r \in req[q].after
    /\ req[q].resp.status # 500

\* C18: after register(e, p) answered 201 with token T1, every later
\* login(e, p) answers 200 with a token T2 whose subject is the same user
\* id, and T2 differs from T1.
C18_LoginAfterRegisterNewToken ==
    \A r \in Reqs : \A q \in Reqs :
        LoginAfterRegister(r, q) =>
            /\ req[q].resp.status = 200
            /\ req[q].resp.body.user = req[r].resp.body.user
            /\ req[q].resp.body.token.claims.sub = req[r].resp.body.token.claims.sub
            /\ req[q].resp.body.token # req[r].resp.body.token

\* ------------------------------------------------------------------------
\* Properties of the error rendering
\* ------------------------------------------------------------------------

\* The status the claim lists for each kind of error.
ListedStatus(kind) ==
    CASE kind = "Validation"   -> 400
      [] kind = "Auth"         -> 401
      [] kind = "Unauthorized" -> 401
      [] kind = "Forbidden"    -> 403
      [] kind = "NotFound"     -> 404
      [] kind = "ExternalApi"  -> 502
      [] kind = "Internal"     -> 500
      [] kind = "Database"     -> 500

ListedKinds ==
    {"Validation", "Auth", "Unauthorized", "Forbidden", "NotFound", "ExternalApi",
     "Internal", "Database"}

\* Strings an error may carry.
ErrorDetails ==
    {"", "Invalid credentials", "Dashboard not found", "API key not configured",
     "API returned status", "sqlx error"}

GenericKinds == {"ExternalApi", "Internal", "Database"}

GenericMessages ==
    {"External service error", "Internal server error", "Database error occurred"}

ErrorResponse(r) == req[r].pc = "done" /\ req[r].resp.status >= 400

\* C19: an AppError of every kind is rendered as the status listed for the
\* kind (Validation 400, Auth and Unauthorized 401, Forbidden 403, NotFound
\* 404, ExternalApi 502, Internal and Database 500) with a body of the one
\* field "error"; for ExternalApi, Internal and Database the message is the
\* same whatever detail the error carries; and every error response a
\* handler or the gate gives has that shape, with a generic message when
\* its status is 500 or 502.
C19_ErrorRendering ==
    /\ \A kind \in ListedKinds : \A d \in ErrorDetails :
         LET e == AppErrorOf(kind, d) IN
         /\ IntoResponse(e).status = ListedStatus(kind)
         /\ DOMAIN IntoResponse(e).body = {"error"}
         /\ kind \in GenericKinds =>
              /\ IntoResponse(e).body.error \in GenericMessages
              /\ \A d2 \in ErrorDetails : IntoResponse(AppErrorOf(kind, d2)) = IntoResponse(e)
    /\ \A r \in Reqs : ErrorResponse(r) =>
         /\ req[r].resp.status \in { ListedStatus(kind) : kind \in ListedKinds }
         /\ DOMAIN req[r].resp.body = {"error"}
         /\ req[r].resp.status \in {500, 502} => req[r].resp.body.error \in GenericMessages
         /\ req[r].resp.status = 502 => req[r].resp.body.error = "External service error"

\* A weather request failed on its missing API key and a widget request on
\* its upstream: 500 and 502, each with its generic message.
C19_Witness ==
    \E r \in Reqs : \E q \in Reqs :
        /\ req[r].route = "weather" /\ req[r].gate = "Authorized" /\ req[r].gets = 0
        /\ req[r].resp = [status |-> 500, body |-> [error |-> "Internal server error"]]
        /\ req[q].calls = 1
        /\ req[q].resp = [status |-> 502, body |-> [error |-> "External service error"]]

\* ------------------------------------------------------------------------
\* Properties of partial upstream data
\* ------------------------------------------------------------------------

\* The outbound call of request r got a 2xx response whose body is JSON
\* without the fields the handler looks for.
GotPartialData(r) == IsWidget(r) /\ req[r].last.json /\ ~req[r].last.complete

\* C20: in every provider handler a 2xx upstream response whose JSON body
\* lacks the expected fields does not fail the request: the handler goes on
\* with a result of defaults, answers 200 with it and writes it to the
\* cache.
C20_PartialDataNeverFails ==
    \A r \in Reqs : GotPartialData(r) =>
        /\ req[r].pc \in {"set", "done"}
        /\ req[r].result.type = TypeOf(req[r].route)
        /\ req[r].pc = "done" =>
             /\ req[r].resp = [status |-> 200, body |-> ToJson(req[r].result)]
             /\ req[r].sets = 1

\* ------------------------------------------------------------------------
\* Properties of retries
\* ------------------------------------------------------------------------

\* Within one request: at most one cache get, one cache set, and one
\* outbound call (status: one per listed url); a request that has responded
\* takes no further step.
AttemptsOnce ==
    /\ [](\A r \in Reqs : IsWidget(r) =>
            /\ req[r].gets <= 1 /\ req[r].sets <= 1
            /\ req[r].calls <= ExpectedCalls(r)
            /\ req[r].failed <= req[r].calls)
    /\ [][\A r \in Reqs : req[r].pc = "done" => req'[r] = req[r]]_vars

ModelPasswords == {"password123", "hunter2hunter2", "short", ""}

\* The user row a 201 register response names.
RegisteredRow(r) == CHOOSE u \in users : u.id = req[r].resp.body.user.id

\* C22: verify_password(p, hash_password(p)) is Ok(true) for every
\* password and salt; verify_password(p1, hash_password(p2)) with p1 # p2
\* is Ok(false), a result and not an error; verify_password is an Internal
\* error for a malformed hash string and only then. So the hash register
\* stored verifies the password it was given and no other.
C22_PasswordRoundTrip ==
    /\ \A p1 \in ModelPasswords : \A p2 \in ModelPasswords : \A salt \in Salts :
         LET v == VerifyPassword(p1, HashPassword(p2, salt)) IN
         /\ v.ok
         /\ v.val = (p1 = p2)
    /\ \A p \in ModelPasswords :
         LET v == VerifyPassword(p, MalformedHash) IN
         /\ ~v.ok
         /\ v.err.kind = "Internal"
    /\ \A u \in users : \A p \in ModelPasswords : VerifyPassword(p, u.password_hash).ok
    /\ \A r \in Reqs :
         (req[r].route = "register" /\ req[r].pc = "done" /\ req[r].resp.status = 201) =>
            \A p \in ModelPasswords :
               VerifyPassword(p, RegisteredRow(r).password_hash).val = (p = req[r].arg.password)

\* A register stored a hash under the second salt, and a later login with
\* another password for that email was refused.
C22_Witness ==
    \E r \in Reqs : \E q \in Reqs :
        /\ req[r].route = "register" /\ req[r].pc = "done" /\ req[r].resp.status = 201
        /\ RegisteredRow(r).password_hash[2] = "salt2"
        /\ req[q].route = "login" /\ req[q].pc = "done"
        /\ req[q].arg.email = req[r].arg.email
        /\ req[q].arg.password # req[r].arg.password
        /\ req[q].resp.status = 401

\* ------------------------------------------------------------------------
\* Properties of token issuance
\* ------------------------------------------------------------------------

\* Token t names user row u.
TokenOf(t, u) == t.claims.sub = UuidToString(u.id) /\ t.claims.email = u.email

\* Request r's step is a register that inserted row u and answered with t.
IssuedByRegister(r, t, u) ==
    /\ req[r].route = "register" /\ req[r].pc = "insert"
    /\ req'[r].pc = "done" /\ req'[r].resp.status = 201
    /\ req'[r].resp.body.token = t
    /\ u \notin users /\ users' = users \cup {u}
    /\ u.email = req[r].arg.email

\* Request r's step is a login whose email is row u's and whose password
\* verifies against u's stored hash, and it answered with t.
IssuedByLogin(r, t, u) ==
    /\ req[r].route = "login" /\ req[r].pc = "handler"
    /\ req'[r].pc = "done" /\ req'[r].resp.status = 200
    /\ req'[r].resp.body.token = t
    /\ u \in users /\ users' = users
    /\ u.email = req[r].arg.email
    /\ u.password_hash[3] = <<u.password_hash[2], req[r].arg.password>>

\* Request r answers with a token in this step.
Answers(r) == req[r].pc # "done" /\ req'[r].pc = "done" /\ req'[r].resp.status \in {200, 201}

\* C23: a token naming user u is issued only in the step of a register that
\* inserted u or of a login whose email is u's and whose password verifies
\* against u's stored hash; and in every state each issued token's sub and
\* email are the id and email of a stored user.
C23_TokensOnlyForVerifiedUsers ==
    /\ [][/\ \A t \in issued' \ issued : \E r \in Reqs : Answers(r) /\ req'[r].resp.body.token = t
          /\ \A r \in Reqs : Answers(r) =>
               LET t == req'[r].resp.body.token IN
               \E u \in users' :
                  /\ TokenOf(t, u)
                  /\ IF req[r].route = "register"
                       THEN IssuedByRegister(r, t, u) ELSE IssuedByLogin(r, t, u)]_vars
    /\ [](\A t \in issued : \E u \in users : TokenOf(t, u))
    /\ [](\A r \in Reqs : (req[r].pc = "done" /\ req[r].resp.status \in {200, 201}) =>
            req[r].resp.body.token \in issued)

\* A register and a login have each issued a token, for different users.
C23_Witness ==
    \E r \in Reqs : \E q \in Reqs :
        /\ req[r].route = "register" /\ req[r].resp.status = 201
        /\ req[q].route = "login" /\ req[q].resp.status = 200
        /\ req[r].resp.body.token \in issued /\ req[q].resp.body.token \in issued
        /\ req[r].resp.body.token.claims.sub # req[q].resp.body.token.claims.sub

\* ------------------------------------------------------------------------
\* Properties of the dashboards
\* ------------------------------------------------------------------------

\* Request r, of an authorized user, runs a query of a dashboard handler in
\* this step.
DashStep(r) ==
    /\ req[r].route \in DashboardRoutes
    /\ req[r].pc \in {"handler", "update"}
    /\ req'[r] # req[r]

\* The rows that are not the caller's.
RowsOfOthers(table, r) == { d \in table : d.user_id # req[r].ctx.user_id }

\* The dashboards a response returns.
Returned(r) ==
    IF req[r].pc # "done" \/ req[r].resp.status \notin {200, 201} THEN {}
    ELSE IF req[r].route = "dash_list" THEN req[r].resp.body
    ELSE IF req[r].route \in DashboardRoutes THEN {req[r].resp.body}
    ELSE {}

\* C24: no step of a user's list, get, update or delete request (or
\* create) changes, removes or adds a dashboard of another user, and no
\* response returns one; get, update and delete on the id of another user's
\* dashboard, when the query succeeds, answer 404 NotFound and leave the
\* dashboards table unchanged.
C24_OwnershipIsolation ==
    /\ [][\A r \in Reqs : DashStep(r) =>
            /\ RowsOfOthers(dashboards', r) = RowsOfOthers(dashboards, r)
            /\ (/\ req[r].route \in {"dash_get", "dash_update", "dash_delete"}
                /\ \E d \in RowsOfOthers(dashboards, r) : d.id = req[r].arg.id
                /\ req'[r].resp.status # 500)
               => /\ req'[r].pc = "done"
                  /\ req'[r].resp = [status |-> 404, body |-> [error |-> "Dashboard not found"]]
                  /\ dashboards' = dashboards]_vars
    /\ [](\A r \in Reqs : \A d \in Returned(r) : d.user_id = req[r].ctx.user_id)

\* One user asked to delete and to update the other user's dashboard, both
\* answered 404, and the dashboard is as it was.
C24_Witness ==
    \E r \in Reqs : \E q \in Reqs :
        /\ req[r].route = "dash_delete" /\ req[q].route = "dash_update"
        /\ req[r].ctx.user_id = 1 /\ req[q].ctx.user_id = 1
        /\ req[r].arg.id = 2 /\ req[q].arg.id = 2
        /\ req[r].resp.status = 404 /\ req[q].resp.status = 404
        /\ \E d \in dashboards : d.id = 2 /\ d.user_id = 2 /\ d \in InitialDashboards

\* ------------------------------------------------------------------------
\* Properties of register
\* ------------------------------------------------------------------------

\* Request r runs the first part of register in this step: the validation
\* and the SELECT by email.
RegisterCheckStep(r) ==
    req[r].route = "register" /\ req[r].pc = "handler" /\ req'[r].pc # "handler"

\* A 400 Validation response.
ValidationResponse(resp) == resp.status = 400 /\ DOMAIN resp.body = {"error"}

\* C25: register answers 400 Validation, inserts no user and issues no
\* token when the email is empty, the password is empty, the password is
\* shorter than 8 characters, or the email is already registered; the users
\* table is unchanged.
C25_RegisterRejects ==
    [][\A r \in Reqs :
         (/\ RegisterCheckStep(r)
          /\ req'[r].resp.status # 500
          /\ IF req[r].arg.email = "" THEN TRUE
             ELSE IF req[r].arg.password = "" THEN TRUE
             ELSE IF CharCount(req[r].arg.password) < 8 THEN TRUE
             ELSE \E u \in users : u.email = req[r].arg.email)
         => /\ req'[r].pc = "done"
            /\ ValidationResponse(req'[r].resp)
            /\ users' = users /\ issued' = issued]_vars

\* Request r is a register that has answered 201 with a token.
Registered(r) == req[r].route = "register" /\ req[r].pc = "done" /\ req[r].resp.status = 201

\* C26: after any interleaving of register requests the users table holds
\* at most one user per email, and of the register requests for one email
\* at most one answers 201 with a token, also when both ran their SELECT
\* before either INSERT; a request that loses answers with an error and
\* issues no token.
C26_EmailUnique ==
    /\ \A u \in users : \A v \in users : (u.email = v.email \/ u.id = v.id) => u = v
    /\ \A r \in Reqs : \A q \in Reqs :
         (Registered(r) /\ Registered(q) /\ req[r].arg.email = req[q].arg.email) => r = q
    /\ \A r \in Reqs : Registered(r) =>
         /\ req[r].resp.body.token \in issued
         /\ \E u \in users : /\ u.email = req[r].arg.email
                             /\ u.id = req[r].resp.body.user.id
    /\ Cardinality(issued) <= Cardinality(users \ InitialUsers) + Cardinality({ r \in Reqs : req[r].route = "login" })

\* Two register requests for one email both found no user in their SELECT;
\* one answered 201, the other 500, and one user has the email.
C26_Witness ==
    \E r \in Reqs : \E q \in Reqs :
        /\ Registered(r)
        /\ req[q].route = "register" /\ req[q].pc = "done"
        /\ req[q].arg.email = req[r].arg.email
        /\ req[q].queries = 2 /\ req[q].resp.status = 500
        /\ r \notin req[q].after /\ q \notin req[r].after
        /\ Cardinality({ u \in users : u.email = req[r].arg.email }) = 1

\* ------------------------------------------------------------------------
\* Properties of update_dashboard
\* ------------------------------------------------------------------------

\* Request r runs the UPDATE of update_dashboard in this step, and the
\* statement succeeds.
UpdateWriteStep(r) ==
    req[r].route = "dash_update" /\ req[r].pc = "update" /\ req'[r].resp.status = 200

\* The row with the id request r names.
RowOf(table, r) == CHOOSE d \in table : d.id = req[r].arg.id

\* C27: update_dashboard changes only the fields present in its payload:
\* each of name, layout_json and settings_json that the payload leaves out
\* keeps the value the row has in the table at the moment of the UPDATE,
\* also when another update of the same dashboard ran between this
\* request's SELECT and its UPDATE.
C27_UpdateKeepsAbsentFields ==
    [][\A r \in Reqs : UpdateWriteStep(r) =>
         LET payload == req[r].arg.payload
             old == RowOf(dashboards, r)
             new == RowOf(dashboards', r)
         IN /\ payload.name = None => new.name = old.name
            /\ payload.layout_json = None => new.layout_json = old.layout_json
            /\ payload.settings_json = None => new.settings_json = old.settings_json]_vars

\* ------------------------------------------------------------------------
\* Properties of cache expiry
\* ------------------------------------------------------------------------

\* The requests whose Cache::set wrote the key of request r's query.
WritersOf(r) == { w \in Reqs : IsWidget(w) /\ req[w].stored > 0 /\ KeyOf(w) = KeyOf(r) }

\* C28: a response served from the cache returns the value a Cache::set
\* wrote under the query's key at most the provider's TTL seconds before;
\* and a Cache::get made when the TTL of every write to the key has elapsed
\* does not hit: the request goes on to its outbound fetch.
C28_StalenessBound ==
    /\ [](\A q \in Reqs : req[q].got = "hit" =>
            LET w == req[q].read.by IN
            /\ w \in WritersOf(q)
            /\ req[q].read = EntryOf(w)
            /\ req[q].resp = [status |-> 200, body |-> ToJson(req[w].result)]
            /\ req[w].done_at <= req[q].done_at
            /\ req[q].done_at - req[w].done_at <= ListedTtl(req[q].route))
    /\ [][\A r \in Reqs :
            (/\ GetStep(r)
             /\ WritersOf(r) # {}
             /\ \A w \in WritersOf(r) : now >= req[w].done_at + ListedTtl(req[w].route))
            => /\ req'[r].got \in {"miss", "error"}
               /\ req'[r].pc = IF ExpectedCalls(r) = 0 THEN "set" ELSE "fetch"]_vars

\* A query arrived when the TTL of the only write to its key had just
\* elapsed; it missed and made its outbound call.
C28_Witness ==
    \E r \in Reqs : \E w \in Reqs :
        /\ WritersOf(r) = {w}
        /\ req[r].gate_at = req[w].done_at + TtlOf(req[w].route)
        /\ req[r].got = "miss" /\ req[r].calls = 1

\* ------------------------------------------------------------------------
\* Properties of the provider API keys
\* ------------------------------------------------------------------------

\* The handler body of widget request r has started and taken a step.
HandlerRan(r) == IsWidget(r) /\ req[r].gate = "Authorized" /\ req[r].pc \in {"fetch", "set", "done"}

\* The provider of request r needs an API key that the configuration lacks.
KeyNotConfigured(r) ==
    \/ req[r].route = "weather" /\ ~config.openweather_api_key
    \/ req[r].route = "news" /\ ~config.newsapi_api_key

\* C29: an authorized weather or news request whose API key is not
\* configured ends with Internal (500) without a cache get, an outbound call
\* or a cache set, whatever the cache holds under its key; every other
\* authorized widget request, github, crypto and status with no key
\* configured included, makes its cache get.
C29_ApiKeyBeforeCache ==
    /\ [](\A r \in Reqs : HandlerRan(r) =>
            IF KeyNotConfigured(r)
              THEN /\ req[r].pc = "done"
                   /\ req[r].resp = [status |-> 500, body |-> [error |-> "Internal server error"]]
                   /\ req[r].gets = 0 /\ req[r].calls = 0 /\ req[r].sets = 0
              ELSE req[r].gets = 1)
    /\ [][\A r \in Reqs :
            (IsWidget(r) /\ req[r].pc = "handler" /\ req'[r] # req[r] /\ KeyNotConfigured(r))
            => cache' = cache]_vars

\* With no key configured a weather request ended with 500 while the store
\* held a live weather entry under its key, and a github request made its
\* outbound call.
C29_Witness ==
    \E r \in Reqs : \E q \in Reqs :
        /\ req[r].route = "weather" /\ HandlerRan(r) /\ KeyNotConfigured(r)
        /\ Live(cache[KeyOf(r)], now)
        /\ FromJson(TypeOf(req[r].route), cache[KeyOf(r)].text).ok
        /\ req[r].resp.status = 500
        /\ req[q].route = "github" /\ HandlerRan(q)
        /\ ~config.openweather_api_key /\ ~config.newsapi_api_key
        /\ req[q].gets = 1 /\ req[q].calls = 1

====
